---------------------------- MODULE Spec2Model ----------------------------
(***************************************************************************)
(* The announcement scheduler of ScreenReader                              *)
(* (src/src/screen-reader/screen_reader.ts) and the speech output device   *)
(* it drives (window.speechSynthesis).                                     *)
(*                                                                         *)
(* Texts are identified by the number of the request that carried them:    *)
(* the n-th call of speak / speakHighPriority / forceSpeek carries text n, *)
(* so a smaller number is an earlier request.  0 stands for null.          *)
(*                                                                         *)
(* Time is counted in milliseconds and advances in steps of settleDelay    *)
(* (50 ms), which divides every delay and threshold of the scheduler.      *)
(* Date.now() - utteranceStartTime is kept as the variable timeSpoken,     *)
(* which stops growing at MaxAge (> minSpeakTime): the code only compares  *)
(* it with 200 and 500.  A timeout is kept with the time left until due.   *)
(*                                                                         *)
(* The device: speechSynthesis.speak(u) appends u to the device queue,     *)
(* whose head is the utterance being spoken; speechSynthesis.speaking is   *)
(* true while the queue is not empty; the head may end or fail at any      *)
(* time; speechSynthesis.cancel() empties the queue, and every utterance   *)
(* it removes still gets its terminal event (end, or error 'interrupted'   *)
(* / 'canceled', depending on the platform), dispatched asynchronously     *)
(* but before the next 50 ms have passed.  SpecSilent is the scheduler on  *)
(* a device that drops cancelled utterances without any event.             *)
(***************************************************************************)
EXTENDS Integers, Sequences, FiniteSets

\* ------------------------------------------------------------ bounds
\* number of announce requests in a behaviour
MaxReq == 3
\* timeSpoken stops growing after this many steps of settleDelay
MaxAgeSteps == 11

\* ------------------------------------------------- program constants
minSpeakTime == 500
interruptionDelay == 300
highPriorityThreshold == 200
settleDelay == 50
forceDelay == 100
deleteAllDelay == 1000

MaxAge == MaxAgeSteps * settleDelay

Msgs == 1..MaxReq
Priority == {"normal", "high"}

VARIABLES
  speechAvailable,    \* 'speechSynthesis' in window
  cancelNotifies,     \* the device dispatches the terminal event of an utterance it cancels
  isEnabled,          \* this.isEnabled
  currentUtterance,   \* this.currentUtterance (0 = null, else its text)
  timeSpoken,         \* Date.now() - this.utteranceStartTime
  pendingMessage,     \* this.pendingMessage (0 = null)
  interruptionTimer,  \* this.interruptionTimer # null
  isSpeaking,         \* this.isSpeaking
  timeouts,           \* live setTimeout callbacks: [kind, left, msg]
  queue,              \* the device queue; its head is being spoken
  queueAge,           \* history: for each utterance of the queue, the time since it was submitted
  cancelEvents,       \* utterances removed by cancel() whose end/error event is not yet dispatched
  submitted,          \* history: the texts handed to speechSynthesis.speak, in order
  nextReq,            \* number of the next request
  reqs,               \* history: what each request was and the state it met
  enableMark,         \* history: nextReq when the engine was last re-enabled
  disableMark,        \* history: nextReq when setEnabled(false) was last called
  disposed,           \* history: dispose() has been called
  cursorInterval,     \* this.cursorInterval # null: the 250 ms workspace-cursor poll is running
  flyoutInterval,     \* the 500 ms flyout-cursor poll is running
  curNode,            \* workspace.getCursor().getCurNode()
  flyoutBlock,        \* id of the source block of the flyout cursor's node ("" = none)
  lastWorkspaceNodeId,   \* this.lastWorkspaceNodeId (<<>> = null)
  lastAnnouncedBlockId,  \* this.lastAnnouncedBlockId ("" = null)
  hasLeftWorkspace,   \* this.hasLeftWorkspace
  workspaceHasFocus,  \* document.activeElement is inside the workspace SVG
  observedNode,       \* history: the node the workspace-cursor poll saw at its last tick
  focusReturned,      \* history: the workspace has regained the focus since that tick
  focusLost,          \* history: the workspace has been without the focus since the watcher announced last
  isDeletingAll,      \* this.isDeletingAll
  deleteAllTimers,    \* time left of each live setTimeout that resets isDeletingAll
  deleteSuppressed,   \* history: a BLOCK_DELETE event has been passed over in silence
  rawText,            \* a text given to cleanTextForScreenReader
  fieldValue,         \* what the normalisations so far have made of rawText
  passes,             \* number of normalisations applied to rawText
  utteranceParams,    \* rate, pitch, volume and voice of the utterance created last (voice 0 = not set)
  settings,           \* this.settings
  selectedVoice,      \* this.selectedVoice (0 = null, else the number of the voice)
  voicesLoaded,       \* speechSynthesis.getVoices() returns the voices (else an empty list)
  dialogSettings,     \* the settings object the settings dialog holds and passes to updateSettings
  configured,         \* history: the settings last loaded or passed to updateSettings
  raised,             \* history: a public method has raised an exception to its caller
  block,              \* the block given to getBlockDescription (<<>> = none yet)
  variableTable,      \* the variables of the block's workspace: name and id of each
  description,        \* what getBlockDescription(block) returned or did
  topBlocks,          \* workspace.getTopBlocks(false): id and position of each stack's root
  engineOrder,        \* what Array.prototype.sort makes of topBlocks in this engine
  cursorBlock,        \* cursor.getCurNode()?.getSourceBlock(), by id (0 = none)
  stackMessage,       \* the last stack announcement: [k, n], or n = 0 for 'No other stacks'
  visited,            \* history: the stacks the cursor has been on, in order
  toolboxItems,       \* toolbox.getToolboxItems()
  lastToolboxLetter,  \* this.lastToolboxLetter ("" at first)
  sinceToolboxLetter, \* Date.now() - this.lastToolboxLetterTime, up to letterWindow
  currentToolboxLetterIndex,  \* this.currentToolboxLetterIndex
  selectedItem,       \* position of toolbox.getSelectedItem() (-1 = none)
  selectEvents,       \* TOOLBOX_ITEM_SELECT events fired and not yet delivered
  toolboxMessage,     \* what the toolbox listener announced last
  lastKey,            \* history: the letter of the last press, matched or not
  sinceKey,           \* history: the time since that press, up to letterWindow
  dropdownVisible,    \* the .blocklyDropDownDiv has style.display !== 'none'
  menuItemsShown,     \* number of .blocklyMenuItem elements inside the dropdown div
  isMenuOpen,         \* isMenuOpen of setupComprehensiveMenuListeners
  hasAnnouncedMenuOpen,  \* hasAnnouncedMenuOpen
  monitorInterval,    \* time to the next call of monitorDropdownMenu (-1 = monitorInterval is null)
  menuTimers,         \* live setTimeout callbacks of the menu observer: [kind, left]
  openedFor,          \* history: how long the dropdown has been visible, up to openDelay + monitorPeriod
  announcedOpening,   \* history: 'Menu opened' announcements since the dropdown became visible
  openedAtRest,       \* history: the dropdown became visible with no timeout of the observer armed
                      \* and no monitor running
  menuTicks,          \* history: monitor periods that have passed
  cleanupTimeout,     \* AutoCleanup.cleanupTimeout (0 = null, else the id of a timeout)
  cleanupTimers,      \* live setTimeout callbacks of AutoCleanup: [id, left]
  nextTimerId,        \* the id window.setTimeout returns next
  readOnly,           \* workspace.options.readOnly
  topBlockCount,      \* workspace.getTopBlocks(false).length
  cleanUps,           \* history: calls of workspace.cleanUp() by AutoCleanup
  sinceBlockEvent,    \* history: time since the last BLOCK_CREATE / BLOCK_DELETE event
  burstOpen,          \* history: such an event has come and no cleanup callback has run since
  burstEvents,        \* history: the number of such events since the callback before them
  cleanupDisposed,    \* history: AutoCleanup.dispose() has been called
  dialogOpen,         \* the settings dialog has the attribute open
  originalSettings,   \* SettingsDialog.originalSettings
  persisted,          \* the item 'blockly-screenreader-settings' of localStorage (<<>> = none)
  atOpen,             \* history: what the reader went by when the dialog was opened last
  dialogEvents        \* history: number of events the dialog and the enabled flag have been given

vars == <<speechAvailable, cancelNotifies, isEnabled, currentUtterance, timeSpoken, pendingMessage,
          interruptionTimer, isSpeaking, timeouts, queue, queueAge, cancelEvents,
          submitted, nextReq, reqs, enableMark, disableMark, disposed, cursorInterval,
          flyoutInterval, curNode, flyoutBlock, lastWorkspaceNodeId, lastAnnouncedBlockId,
          hasLeftWorkspace, workspaceHasFocus, observedNode, focusReturned, focusLost, isDeletingAll,
          deleteAllTimers,
          deleteSuppressed, rawText, fieldValue, passes, utteranceParams, settings,
          selectedVoice, voicesLoaded, dialogSettings, configured, raised, block,
          variableTable, description, topBlocks, engineOrder, cursorBlock, stackMessage,
          visited, toolboxItems, lastToolboxLetter, sinceToolboxLetter,
          currentToolboxLetterIndex, selectedItem, selectEvents, toolboxMessage, lastKey,
          sinceKey, dropdownVisible, menuItemsShown, isMenuOpen, hasAnnouncedMenuOpen,
          monitorInterval, menuTimers, openedFor, announcedOpening, openedAtRest,
          menuTicks, cleanupTimeout, cleanupTimers, nextTimerId, readOnly, topBlockCount,
          cleanUps, sinceBlockEvent, burstOpen, burstEvents, cleanupDisposed, dialogOpen,
          originalSettings, persisted, atOpen, dialogEvents>>

history == <<reqs, enableMark, disableMark>>

\* The scheduler and device state as one value, so that a handler that calls
\* another handler is the composition of the two.
St ==
  [isEnabled |-> isEnabled, currentUtterance |-> currentUtterance,
   timeSpoken |-> timeSpoken, pendingMessage |-> pendingMessage,
   interruptionTimer |-> interruptionTimer, isSpeaking |-> isSpeaking,
   timeouts |-> timeouts, queue |-> queue, queueAge |-> queueAge,
   cancelEvents |-> cancelEvents, submitted |-> submitted,
   utteranceParams |-> utteranceParams]

Become(S) ==
  /\ isEnabled' = S.isEnabled
  /\ currentUtterance' = S.currentUtterance
  /\ timeSpoken' = S.timeSpoken
  /\ pendingMessage' = S.pendingMessage
  /\ interruptionTimer' = S.interruptionTimer
  /\ isSpeaking' = S.isSpeaking
  /\ timeouts' = S.timeouts
  /\ queue' = S.queue
  /\ queueAge' = S.queueAge
  /\ cancelEvents' = S.cancelEvents
  /\ submitted' = S.submitted
  /\ utteranceParams' = S.utteranceParams

Range(s) == {s[i] : i \in 1..Len(s)}

\* ------------------------------------------------------- the device
\* window.speechSynthesis.speaking
speaking(S) == S.queue # <<>>

\* window.speechSynthesis.cancel()
cancel(S) ==
  [S EXCEPT !.queue = <<>>, !.queueAge = <<>>,
            !.cancelEvents = IF cancelNotifies THEN @ \cup Range(S.queue) ELSE @]

\* window.speechSynthesis.speak(utterance); an utterance that finds the queue
\* empty starts at once and its onstart handler sets isSpeaking
deviceSpeak(S, message) ==
  [S EXCEPT !.queue = Append(@, message),
            !.queueAge = Append(@, 0),
            !.submitted = Append(@, message),
            !.isSpeaking = IF S.queue = <<>> THEN TRUE ELSE @]

\* clearTimeout(this.interruptionTimer); this.interruptionTimer = null
clearInterruptionTimer(S) ==
  IF S.interruptionTimer
    THEN [S EXCEPT !.timeouts = {t \in @ : t.kind # "interrupt"},
                   !.interruptionTimer = FALSE]
    ELSE S

\* ---------------------------------------------------- the scheduler
\* number of voices of the device once they are loaded
NumVoices == 2

\* window.speechSynthesis.getVoices(): the voices by number
getVoices == IF voicesLoaded THEN [i \in 1..NumVoices |-> i] ELSE <<>>

\* the first voice whatever the index says
applyFirstVoice(voices, voiceIndex) ==
  IF Len(voices) > 0 THEN voices[1] ELSE 0

\* voices[this.settings.voiceIndex] || voices[0] || null
applyVoiceSettings(voices, voiceIndex) ==
  IF voiceIndex + 1 \in 1..Len(voices) THEN voices[voiceIndex + 1]
  ELSE IF Len(voices) > 0 THEN voices[1]
  ELSE 0

\* new SpeechSynthesisUtterance(message) with the rate, pitch and volume of
\* this.settings, and this.selectedVoice when there is one
newUtterance ==
  [rate |-> settings.rate, pitch |-> settings.pitch, volume |-> settings.volume,
   voice |-> selectedVoice]

speakImmediate(S, message) ==
  IF ~speechAvailable
    THEN S   \* new SpeechSynthesisUtterance throws; the catch logs
    ELSE deviceSpeak([S EXCEPT !.currentUtterance = message, !.timeSpoken = 0,
                               !.utteranceParams = newUtterance],
                     message)

interruptCurrentAndSpeak(S, message) ==
  LET S1 == cancel([S EXCEPT !.pendingMessage = 0])
  IN  [S1 EXCEPT !.currentUtterance = 0,
                 !.timeouts = @ \cup {[kind |-> "settle", left |-> settleDelay,
                                       msg |-> message]}]

\* speak() that does not clear the interruption timer of the request it replaces
speakKeepsTimer(S, message, priority) ==
  IF ~speechAvailable \/ ~S.isEnabled
    THEN S
    ELSE
      LET S1 == S
          S2 == IF priority = "high" THEN [S1 EXCEPT !.pendingMessage = 0] ELSE S1
      IN  IF S2.currentUtterance # 0 /\ speaking(S2)
            THEN IF priority = "high" /\ S2.timeSpoken > highPriorityThreshold
                   THEN interruptCurrentAndSpeak(S2, message)
                   ELSE IF S2.timeSpoken < minSpeakTime
                     THEN [S2 EXCEPT
                             !.pendingMessage = message,
                             !.interruptionTimer = TRUE,
                             !.timeouts = @ \cup
                                {[kind |-> "interrupt",
                                  left |-> minSpeakTime - S2.timeSpoken + interruptionDelay,
                                  msg |-> message]}]
                     ELSE interruptCurrentAndSpeak(S2, message)
            ELSE speakImmediate(S2, message)

\* speak() whose high-priority requests preempt without the 200 ms threshold
speakHighAlwaysPreempts(S, message, priority) ==
  IF ~speechAvailable \/ ~S.isEnabled
    THEN S
    ELSE
      LET S1 == clearInterruptionTimer(S)
          S2 == IF priority = "high" THEN [S1 EXCEPT !.pendingMessage = 0] ELSE S1
      IN  IF S2.currentUtterance # 0 /\ speaking(S2)
            THEN IF priority = "high"
                   THEN interruptCurrentAndSpeak(S2, message)
                   ELSE IF S2.timeSpoken < minSpeakTime
                     THEN [S2 EXCEPT
                             !.pendingMessage = message,
                             !.interruptionTimer = TRUE,
                             !.timeouts = @ \cup
                                {[kind |-> "interrupt",
                                  left |-> minSpeakTime - S2.timeSpoken + interruptionDelay,
                                  msg |-> message]}]
                     ELSE interruptCurrentAndSpeak(S2, message)
            ELSE speakImmediate(S2, message)

\* speak() whose interruption timer forgets the rest of minSpeakTime
speakShortTimer(S, message, priority) ==
  IF ~speechAvailable \/ ~S.isEnabled
    THEN S
    ELSE
      LET S1 == clearInterruptionTimer(S)
          S2 == IF priority = "high" THEN [S1 EXCEPT !.pendingMessage = 0] ELSE S1
      IN  IF S2.currentUtterance # 0 /\ speaking(S2)
            THEN IF priority = "high" /\ S2.timeSpoken > highPriorityThreshold
                   THEN interruptCurrentAndSpeak(S2, message)
                   ELSE IF S2.timeSpoken < minSpeakTime
                     THEN [S2 EXCEPT
                             !.pendingMessage = message,
                             !.interruptionTimer = TRUE,
                             !.timeouts = @ \cup
                                {[kind |-> "interrupt",
                                  left |-> interruptionDelay,
                                  msg |-> message]}]
                     ELSE interruptCurrentAndSpeak(S2, message)
            ELSE speakImmediate(S2, message)

\* speak() that does not clear the pending text for a high-priority request
speakKeepsPending(S, message, priority) ==
  IF ~speechAvailable \/ ~S.isEnabled
    THEN S
    ELSE
      LET S1 == clearInterruptionTimer(S)
          S2 == S1
      IN  IF S2.currentUtterance # 0 /\ speaking(S2)
            THEN IF priority = "high" /\ S2.timeSpoken > highPriorityThreshold
                   THEN interruptCurrentAndSpeak(S2, message)
                   ELSE IF S2.timeSpoken < minSpeakTime
                     THEN [S2 EXCEPT
                             !.pendingMessage = message,
                             !.interruptionTimer = TRUE,
                             !.timeouts = @ \cup
                                {[kind |-> "interrupt",
                                  left |-> minSpeakTime - S2.timeSpoken + interruptionDelay,
                                  msg |-> message]}]
                     ELSE interruptCurrentAndSpeak(S2, message)
            ELSE speakImmediate(S2, message)

\* speak() whose interruption timer counts from the request, not from the start
\* of the current utterance
speakFixedDelay(S, message, priority) ==
  IF ~speechAvailable \/ ~S.isEnabled
    THEN S
    ELSE
      LET S1 == clearInterruptionTimer(S)
          S2 == IF priority = "high" THEN [S1 EXCEPT !.pendingMessage = 0] ELSE S1
      IN  IF S2.currentUtterance # 0 /\ speaking(S2)
            THEN IF priority = "high" /\ S2.timeSpoken > highPriorityThreshold
                   THEN interruptCurrentAndSpeak(S2, message)
                   ELSE IF S2.timeSpoken < minSpeakTime
                     THEN [S2 EXCEPT
                             !.pendingMessage = message,
                             !.interruptionTimer = TRUE,
                             !.timeouts = @ \cup
                                {[kind |-> "interrupt",
                                  left |-> minSpeakTime + interruptionDelay,
                                  msg |-> message]}]
                     ELSE interruptCurrentAndSpeak(S2, message)
            ELSE speakImmediate(S2, message)

\* speak(message, priority)
speak(S, message, priority) ==
  IF ~speechAvailable \/ ~S.isEnabled
    THEN S
    ELSE
      LET S1 == clearInterruptionTimer(S)
          S2 == IF priority = "high" THEN [S1 EXCEPT !.pendingMessage = 0] ELSE S1
      IN  IF S2.currentUtterance # 0 /\ speaking(S2)
            THEN IF priority = "high" /\ S2.timeSpoken > highPriorityThreshold
                   THEN interruptCurrentAndSpeak(S2, message)
                   ELSE IF S2.timeSpoken < minSpeakTime
                     THEN [S2 EXCEPT
                             !.pendingMessage = message,
                             !.interruptionTimer = TRUE,
                             !.timeouts = @ \cup
                                {[kind |-> "interrupt",
                                  left |-> minSpeakTime - S2.timeSpoken + interruptionDelay,
                                  msg |-> message]}]
                     ELSE interruptCurrentAndSpeak(S2, message)
            ELSE speakImmediate(S2, message)

\* utterance.onend, were it to hand the pending text to speakImmediate itself
onendKeepsTimer(S) ==
  LET S1 == [S EXCEPT !.isSpeaking = FALSE, !.currentUtterance = 0]
  IN  IF S1.pendingMessage # 0
        THEN speakImmediate([S1 EXCEPT !.pendingMessage = 0], S1.pendingMessage)
        ELSE S1

\* utterance.onend
onend(S) ==
  LET S1 == [S EXCEPT !.isSpeaking = FALSE, !.currentUtterance = 0]
  IN  IF S1.pendingMessage # 0
        THEN speak([S1 EXCEPT !.pendingMessage = 0], S1.pendingMessage, "normal")
        ELSE S1

\* utterance.onerror, were it to hand the failed text to the device again
onerrorRetries(S) ==
  IF S.currentUtterance # 0
    THEN speakImmediate([S EXCEPT !.isSpeaking = FALSE], S.currentUtterance)
    ELSE [S EXCEPT !.isSpeaking = FALSE]

\* utterance.onerror
onerror(S) ==
  [S EXCEPT !.isSpeaking = FALSE, !.currentUtterance = 0]

forceSpeek(S, message) ==
  IF ~S.isEnabled
    THEN S
    ELSE IF speechAvailable
      THEN LET S1 == cancel([clearInterruptionTimer(S) EXCEPT !.pendingMessage = 0])
           IN  [S1 EXCEPT !.currentUtterance = 0,
                          !.timeouts = @ \cup {[kind |-> "settle", left |-> forceDelay,
                                                msg |-> message]}]
      ELSE S

setEnabled(S, enabled) ==
  LET S1 == [S EXCEPT !.isEnabled = enabled]
  IN  IF ~enabled
        THEN [(IF speechAvailable THEN cancel(S1) ELSE S1)
                EXCEPT !.currentUtterance = 0, !.pendingMessage = 0]
        ELSE S1

\* the callback of a timeout that has become due
timeoutCallback(S, t) ==
  CASE t.kind = "interrupt" -> interruptCurrentAndSpeak(S, t.msg)
    [] t.kind = "settle"    -> speakImmediate(S, t.msg)

\* the scheduler's part of dispose()
dispose(S) ==
  LET S1 == clearInterruptionTimer(S)
  IN  IF speechAvailable THEN cancel(S1) ELSE S1

\* delay of the announcement that follows resetSpeechSynthesis()
resetDelay == 200

\* resetSpeechSynthesis()
resetSpeechSynthesis(S) ==
  IF speechAvailable
    THEN [cancel(S) EXCEPT !.timeouts = @ \cup {[kind |-> "reset", left |-> resetDelay,
                                                 msg |-> 0]}]
    ELSE S

\* ------------------------------------------------ navigation watcher
\* A string is the sequence of its characters.
\* cursor.getCurNode() when the cursor is nowhere
NoNode == [type |-> "none", id |-> <<>>, conn |-> "", name |-> <<>>, loc |-> 0]

\* Blockly.INPUT_VALUE, OUTPUT_VALUE, NEXT_STATEMENT, PREVIOUS_STATEMENT as
\* the template literal of getNodeIdentifier prints connection.type
INPUT_VALUE == "1"
OUTPUT_VALUE == "2"
NEXT_STATEMENT == "3"
PREVIOUS_STATEMENT == "4"

\* a statement block and a value block; ids are free text (a loaded workspace
\* keeps the ids of its file), and so are field names
StatementBlock == <<"a">>
ValueBlock == <<"a", "-", "b">>

ASTNode(type, id, conn, name) ==
  [type |-> type, id |-> id, conn |-> conn, name |-> name, loc |-> 0]

\* the places the workspace cursor can be: two spots of the empty workspace,
\* each block, the stack of the statement block, and the connections, inputs
\* and fields of each block
Nodes ==
  {[type |-> "workspace", id |-> <<>>, conn |-> "", name |-> <<>>, loc |-> l] : l \in {0, 1}}
  \cup {ASTNode("block", StatementBlock, "", <<>>),
        ASTNode("block", ValueBlock, "", <<>>),
        ASTNode("stack", StatementBlock, "", <<>>),
        ASTNode("previous", StatementBlock, PREVIOUS_STATEMENT, <<>>),
        ASTNode("next", StatementBlock, NEXT_STATEMENT, <<>>),
        ASTNode("input", StatementBlock, NEXT_STATEMENT, <<"D", "O">>),
        ASTNode("field", StatementBlock, "", <<"b", "-", "a">>),
        ASTNode("output", ValueBlock, OUTPUT_VALUE, <<>>),
        ASTNode("input", ValueBlock, INPUT_VALUE, <<"A">>),
        ASTNode("input", ValueBlock, INPUT_VALUE, <<"B">>),
        ASTNode("field", ValueBlock, "", <<"a">>)}
FlyoutBlocks == {"p", "q"}

\* node.isConnection(): Blockly's ASTNode answers true for its PREVIOUS, NEXT,
\* INPUT and OUTPUT nodes, whose location is a connection
isConnection(node) == node.type \in {"previous", "next", "input", "output"}

\* block?.id || 'unknown'
idOrUnknown(id) ==
  IF id = <<>> THEN <<"u", "n", "k", "n", "o", "w", "n">> ELSE id

getNodeIdentifier(node) ==
  IF node.type = "block"
    THEN <<"b", "l", "o", "c", "k", "-">> \o idOrUnknown(node.id)
  ELSE IF node.type = "workspace"
    THEN <<"w", "o", "r", "k", "s", "p", "a", "c", "e">>
  ELSE IF node.type = "stack"
    THEN <<"s", "t", "a", "c", "k", "-">> \o idOrUnknown(node.id)
  ELSE IF isConnection(node)
    THEN <<"c", "o", "n", "n", "e", "c", "t", "i", "o", "n", "-">>
           \o idOrUnknown(node.id) \o <<"-", node.conn>>
  ELSE IF node.type = "field"
    THEN <<"f", "i", "e", "l", "d", "-">> \o idOrUnknown(node.id) \o <<"-">> \o node.name
  ELSE IF node.type = "input"
    THEN <<"i", "n", "p", "u", "t", "-">> \o idOrUnknown(node.id) \o <<"-">> \o node.name
  ELSE <<"u", "n", "k", "n", "o", "w", "n", "-", node.type>>

\* ------------------------------------------------- text normalisation
\* A text is the sequence of its characters; a character outside ASCII is
\* written by its code point ("U+00B2" is the superscript two).
\* A pattern is a sequence of character sets, one for each character it matches.
WhiteSpace == {" ", "\t", "\n", "U+00A0"}
Invisible == {"U+200E", "U+200F", "U+202A", "U+202B", "U+202C", "U+202D", "U+202E"}

\* pat matches s at position i
Matches(s, i, pat) ==
  /\ i + Len(pat) - 1 <= Len(s)
  /\ \A k \in 1..Len(pat) : s[i + k - 1] \in pat[k]

RECURSIVE replaceFrom(_, _, _, _)
replaceFrom(s, i, pat, r) ==
  IF i > Len(s) THEN <<>>
  ELSE IF Matches(s, i, pat) THEN r \o replaceFrom(s, i + Len(pat), pat, r)
  ELSE <<s[i]>> \o replaceFrom(s, i + 1, pat, r)

\* s.replace(/pat/g, r)
replaceAll(s, pat, r) == replaceFrom(s, 1, pat, r)

\* s.replace(/^pat/, r)
replaceStart(s, pat, r) ==
  IF Matches(s, 1, pat) THEN r \o SubSeq(s, Len(pat) + 1, Len(s)) ELSE s

\* s.replace(/pat$/, r)
replaceEnd(s, pat, r) ==
  LET i == Len(s) - Len(pat) + 1
  IN  IF i >= 1 /\ Matches(s, i, pat) THEN SubSeq(s, 1, i - 1) \o r ELSE s

\* s.trim()
trim(s) ==
  LET keep == {i \in 1..Len(s) : s[i] \notin WhiteSpace}
  IN  IF keep = {} THEN <<>>
      ELSE SubSeq(s, CHOOSE i \in keep : \A j \in keep : i <= j,
                     CHOOSE i \in keep : \A j \in keep : j <= i)

startsWith(s, p) == Len(p) <= Len(s) /\ SubSeq(s, 1, Len(p)) = p
endsWith(s, p) == Len(p) <= Len(s) /\ SubSeq(s, Len(s) - Len(p) + 1, Len(s)) = p
includes(s, c) == \E i \in 1..Len(s) : s[i] = c

\* the keys and phrases of symbolMap
symbolMap ==
  {<<<<"#">>, <<"n", "u", "m", "b", "e", "r">>>>,
   <<<<"<", "=">>, <<"l", "e", "s", "s", " ", "t", "h", "a", "n", " ", "o", "r", " ", "e", "q", "u", "a",
          "l">>>>,
   <<<<"U+2264">>, <<"l", "e", "s", "s", " ", "t", "h", "a", "n", " ", "o", "r", " ", "e", "q", "u", "a",
          "l">>>>,
   <<<<">", "=">>, <<"g", "r", "e", "a", "t", "e", "r", " ", "t", "h", "a", "n", " ", "o", "r", " ", "e",
          "q", "u", "a", "l">>>>,
   <<<<"U+2265">>, <<"g", "r", "e", "a", "t", "e", "r", " ", "t", "h", "a", "n", " ", "o", "r", " ", "e",
          "q", "u", "a", "l">>>>,
   <<<<"U+2260">>, <<"n", "o", "t", " ", "e", "q", "u", "a", "l">>>>,
   <<<<"!", "=">>, <<"n", "o", "t", " ", "e", "q", "u", "a", "l">>>>,
   <<<<"=">>, <<"e", "q", "u", "a", "l", "s">>>>,
   <<<<"<">>, <<"l", "e", "s", "s", " ", "t", "h", "a", "n">>>>,
   <<<<">">>, <<"g", "r", "e", "a", "t", "e", "r", " ", "t", "h", "a", "n">>>>,
   <<<<"+">>, <<"p", "l", "u", "s">>>>,
   <<<<"-">>, <<"m", "i", "n", "u", "s">>>>,
   <<<<"U+00D7">>, <<"t", "i", "m", "e", "s">>>>,
   <<<<"*">>, <<"t", "i", "m", "e", "s">>>>,
   <<<<"U+00F7">>, <<"d", "i", "v", "i", "d", "e", "d", " ", "b", "y">>>>,
   <<<<"/">>, <<"d", "i", "v", "i", "d", "e", "d", " ", "b", "y">>>>,
   <<<<"^">>, <<"t", "o", " ", "t", "h", "e", " ", "p", "o", "w", "e", "r", " ", "o", "f">>>>,
   <<<<"U+221A">>, <<"s", "q", "u", "a", "r", "e", " ", "r", "o", "o", "t">>>>,
   <<<<"U+221B">>, <<"c", "u", "b", "e", " ", "r", "o", "o", "t">>>>,
   <<<<"&", "&">>, <<"a", "n", "d">>>>,
   <<<<"|", "|">>, <<"o", "r">>>>,
   <<<<"U+2227">>, <<"a", "n", "d">>>>,
   <<<<"U+2228">>, <<"o", "r">>>>,
   <<<<"U+00AC">>, <<"n", "o", "t">>>>,
   <<<<"!">>, <<"n", "o", "t">>>>,
   <<<<"U+03C0">>, <<"p", "i">>>>,
   <<<<"e">>, <<"e">>>>,
   <<<<"U+221E">>, <<"i", "n", "f", "i", "n", "i", "t", "y">>>>,
   <<<<"U+03C6">>, <<"p", "h", "i">>>>,
   <<<<"%">>, <<"p", "e", "r", "c", "e", "n", "t">>>>,
   <<<<"U+00B0">>, <<"d", "e", "g", "r", "e", "e", "s">>>>,
   <<<<"U+2208">>, <<"i", "s", " ", "i", "n">>>>,
   <<<<"U+2209">>, <<"i", "s", " ", "n", "o", "t", " ", "i", "n">>>>,
   <<<<"U+2205">>, <<"e", "m", "p", "t", "y", " ", "s", "e", "t">>>>,
   <<<<"U+03B1">>, <<"a", "l", "p", "h", "a">>>>,
   <<<<"U+03B2">>, <<"b", "e", "t", "a">>>>,
   <<<<"U+03B3">>, <<"g", "a", "m", "m", "a">>>>,
   <<<<"U+03B4">>, <<"d", "e", "l", "t", "a">>>>,
   <<<<"U+03B8">>, <<"t", "h", "e", "t", "a">>>>,
   <<<<"U+03BB">>, <<"l", "a", "m", "b", "d", "a">>>>,
   <<<<"U+03BC">>, <<"m", "u">>>>,
   <<<<"U+03C3">>, <<"s", "i", "g", "m", "a">>>>,
   <<<<"U+03A3">>, <<"s", "u", "m">>>>,
   <<<<"U+03A0">>, <<"p", "r", "o", "d", "u", "c", "t">>>>}


\* a lookup that stops at the first character of the key when that is a key itself
symbolMapGetShortest(key) ==
  IF key # <<>> /\ \E e \in symbolMap : e[1] = <<key[1]>>
    THEN (CHOOSE e \in symbolMap : e[1] = <<key[1]>>)[2] \o SubSeq(key, 2, Len(key))
    ELSE <<>>

\* symbolMap[key]; <<>> stands for undefined
symbolMapGet(key) ==
  IF \E e \in symbolMap : e[1] = key
    THEN (CHOOSE e \in symbolMap : e[1] = key)[2]
    ELSE <<>>

\* the chain of replacements of the function names, each /^name\(/i
functionNames ==
  <<<<<<{"s", "S"}, {"i", "I"}, {"n", "N"}, {"("}>>,
      <<"s", "i", "n", "e", " ", "o", "f", " ">>>>,
    <<<<{"c", "C"}, {"o", "O"}, {"s", "S"}, {"("}>>,
      <<"c", "o", "s", "i", "n", "e", " ", "o", "f", " ">>>>,
    <<<<{"t", "T"}, {"a", "A"}, {"n", "N"}, {"("}>>,
      <<"t", "a", "n", "g", "e", "n", "t", " ", "o", "f", " ">>>>,
    <<<<{"a", "A"}, {"s", "S"}, {"i", "I"}, {"n", "N"}, {"("}>>,
      <<"a", "r", "c", "s", "i", "n", "e", " ", "o", "f", " ">>>>,
    <<<<{"a", "A"}, {"c", "C"}, {"o", "O"}, {"s", "S"}, {"("}>>,
      <<"a", "r", "c", "c", "o", "s", "i", "n", "e", " ", "o", "f", " ">>>>,
    <<<<{"a", "A"}, {"t", "T"}, {"a", "A"}, {"n", "N"}, {"("}>>,
      <<"a", "r", "c", "t", "a", "n", "g", "e", "n", "t", " ", "o", "f", " ">>>>,
    <<<<{"l", "L"}, {"n", "N"}, {"("}>>,
      <<"n", "a", "t", "u", "r", "a", "l", " ", "l", "o", "g", "a", "r", "i", "t", "h", "m",
        " ", "o", "f", " ">>>>,
    <<<<{"l", "L"}, {"o", "O"}, {"g", "G"}, {"("}>>,
      <<"l", "o", "g", "a", "r", "i", "t", "h", "m", " ", "o", "f", " ">>>>,
    <<<<{"a", "A"}, {"b", "B"}, {"s", "S"}, {"("}>>,
      <<"a", "b", "s", "o", "l", "u", "t", "e", " ", "v", "a", "l", "u", "e", " ", "o", "f",
        " ">>>>>>

\* the chain of replacements of subscripts and superscripts, each /c/g
scripts ==
  <<<<<<{"U+2080"}>>, <<" ", "s", "u", "b", " ", "0">>>>,
    <<<<{"U+2081"}>>, <<" ", "s", "u", "b", " ", "1">>>>,
    <<<<{"U+2082"}>>, <<" ", "s", "u", "b", " ", "2">>>>,
    <<<<{"U+2083"}>>, <<" ", "s", "u", "b", " ", "3">>>>,
    <<<<{"U+2084"}>>, <<" ", "s", "u", "b", " ", "4">>>>,
    <<<<{"U+2085"}>>, <<" ", "s", "u", "b", " ", "5">>>>,
    <<<<{"U+2086"}>>, <<" ", "s", "u", "b", " ", "6">>>>,
    <<<<{"U+2087"}>>, <<" ", "s", "u", "b", " ", "7">>>>,
    <<<<{"U+2088"}>>, <<" ", "s", "u", "b", " ", "8">>>>,
    <<<<{"U+2089"}>>, <<" ", "s", "u", "b", " ", "9">>>>,
    <<<<{"U+00B2"}>>, <<" ", "s", "q", "u", "a", "r", "e", "d">>>>,
    <<<<{"U+00B3"}>>, <<" ", "c", "u", "b", "e", "d">>>>,
    <<<<{"U+207F"}>>, <<" ", "t", "o", " ", "t", "h", "e", " ", "n">>>>,
    <<<<{"U+02E3"}>>, <<" ", "t", "o", " ", "t", "h", "e", " ", "x">>>>>>


RECURSIVE replaceStartEach(_, _)
replaceStartEach(s, table) ==
  IF table = <<>> THEN s
  ELSE replaceStartEach(replaceStart(s, Head(table)[1], Head(table)[2]), Tail(table))

RECURSIVE replaceAllEach(_, _)
replaceAllEach(s, table) ==
  IF table = <<>> THEN s
  ELSE replaceAllEach(replaceAll(s, Head(table)[1], Head(table)[2]), Tail(table))

\* the replacements of the # branch; the last pattern is /#\sfrom\start/,
\* which reads: #, white space, "from", white space, "tart"
replaceHash(s) ==
  LET
      s1 == replaceStart(s, <<{"#"}>>,
              <<"n", "u", "m", "b", "e", "r">>)
      s2 == replaceAll(s1, <<WhiteSpace, {"#"}, WhiteSpace>>,
              <<" ", "n", "u", "m", "b", "e", "r", " ">>)
      s3 == replaceEnd(s2, <<WhiteSpace, {"#"}>>,
              <<" ", "n", "u", "m", "b", "e", "r">>)
      s4 == replaceAll(s3, <<{"#"}, WhiteSpace, {"f"}, {"r"}, {"o"}, {"m"}, WhiteSpace, {"t"}, {"h"}, {"e"}, WhiteSpace, {"e"}, {"n"}, {"d"}>>,
              <<"n", "u", "m", "b", "e", "r", " ", "f", "r", "o", "m", " ", "t", "h", "e", " ",
                "e", "n", "d">>)
      s5 == replaceAll(s4, <<{"#"}, WhiteSpace, {"f"}, {"r"}, {"o"}, {"m"}, WhiteSpace, {"e"}, {"n"}, {"d"}>>,
              <<"n", "u", "m", "b", "e", "r", " ", "f", "r", "o", "m", " ", "e", "n", "d">>)
      s6 == replaceAll(s5, <<{"#"}, WhiteSpace, {"f"}, {"r"}, {"o"}, {"m"}, WhiteSpace, {"t"}, {"a"}, {"r"}, {"t"}>>,
              <<"n", "u", "m", "b", "e", "r", " ", "f", "r", "o", "m", " ", "s", "t", "a", "r",
                "t">>)
  IN  s6


cleanTextForScreenReader(text) ==
  LET cleanText == trim(SelectSeq(text, LAMBDA c : c \notin Invisible))
      hashed == replaceHash(cleanText)
  IN  IF cleanText = <<"1", "0", "^">> THEN <<"1", "0", " ", "t", "o", " ", "t", "h", "e", " ", "p", "o",
                                "w", "e", "r", " ", "o", "f">>
      ELSE IF cleanText = <<"e", "^">> THEN <<"e", " ", "t", "o", " ", "t", "h", "e", " ", "p", "o", "w",
                                "e", "r", " ", "o", "f">>
      ELSE IF startsWith(cleanText, <<"s", "q", "r", "t", "(">>) /\ endsWith(cleanText, <<")">>)
        THEN LET content == SubSeq(cleanText, 6, Len(cleanText) - 1)
             IN  IF content = <<"2">> THEN <<"s", "q", "u", "a", "r", "e", " ", "r", "o", "o", "t", " ",
                                "o", "f", " ", "2">>
                 ELSE IF content = <<"1", "/", "2">>
                   THEN <<"s", "q", "u", "a", "r", "e", " ", "r", "o", "o", "t", " ", "o",
                            "f", " ", "o", "n", "e", " ", "h", "a", "l", "f">>
                 ELSE <<"s", "q", "u", "a", "r", "e", " ", "r", "o", "o", "t", " ", "o", "f",
                        " ">> \o content
      ELSE IF includes(cleanText, "#") /\ hashed # trim(text) THEN hashed
      ELSE LET cleanText2 == IF includes(cleanText, "#") THEN hashed ELSE cleanText
           IN  IF includes(cleanText2, "(") /\ includes(cleanText2, ")")
                 THEN replaceEnd(replaceStartEach(cleanText2, functionNames), <<{")"}>>, <<>>)
               ELSE IF symbolMapGet(cleanText2) # <<>> THEN symbolMapGet(cleanText2)
               ELSE LET readable == replaceAllEach(cleanText2, scripts)
                    IN  IF readable # <<>> THEN readable ELSE text

\* ---- the texts given to the normaliser
\* characters of the short texts
TextChars == {" ", "#", "<", "=", "(", ")", "U+00B2", "U+200E"}
\* longest short text
MaxTextLen == 3

SampleTexts ==
  {<<"<", "=">>,
   <<">", "=">>,
   <<"!", "=">>,
   <<"&", "&">>,
   <<"|", "|">>,
   <<"s", "q", "r", "t", "(", "2", ")">>,
   <<"s", "q", "r", "t", "(", "1", "/", "2", ")">>,
   <<"s", "q", "r", "t", "(", "x", ")">>,
   <<"s", "q", "r", "t", "(", "s", "i", "n", "(", "x", ")", ")">>,
   <<"1", "0", "^">>,
   <<"e", "^">>,
   <<"s", "i", "n", "(", "x", ")">>,
   <<"S", "I", "N", "(", "x", ")">>,
   <<"#", " ", "f", "r", "o", "m", " ", "e", "n", "d">>,
   <<"i", "t", "e", "m", " ", "#", " ", "2">>,
   <<"x", "U+00B2">>,
   <<"x", "U+2081">>,
   <<"e">>,
   <<"U+03C0">>,
   <<"U+2264">>}


Texts ==
  SampleTexts \cup UNION {[1..n -> TextChars] : n \in 0..MaxTextLen}

\* --------------------------------------------------- block descriptions
\* A description is a string or undefined; a string is kept as the sequence
\* of the pieces it was put together from, the literal pieces of a template
\* and the values set into it.  The empty string is the empty sequence.
Str(parts) == [defined |-> TRUE, text |-> parts]
Undefined == [defined |-> FALSE, text |-> <<>>]

\* null, as getFieldValue returns it for a field the block does not have;
\* in a template it reads "null"
Null == "null"

\* `${v}` for a description v
interpolate(v) == IF v.defined THEN v.text ELSE <<"undefined">>

\* `${value}` for a field value
fieldText(value) == IF value = "" THEN <<>> ELSE <<value>>

\* messages[key] for an object literal of messages
lookup(messages, key) ==
  IF key \in DOMAIN messages THEN Str(messages[key]) ELSE Undefined

\* a block: its type, its fields and, for each input, the block plugged into
\* it as a sequence of length one, or the empty sequence
Block(type, fields, inputs) == [type |-> type, fields |-> fields, inputs |-> inputs]

getFieldValue(b, name) ==
  IF name \in DOMAIN b.fields THEN b.fields[name] ELSE Null

getInputTargetBlock(b, name) ==
  IF name \in DOMAIN b.inputs THEN b.inputs[name] ELSE <<>>

\* variables?.find(v => v.id === varId): variables is the empty sequence when
\* the argument is not passed, else the table in a sequence of length one
find(variables, varId) ==
  IF variables = <<>>
    THEN <<>>
    ELSE LET table == variables[1]
             hits == {i \in 1..Len(table) : table[i].id = varId}
         IN  IF hits = {}
               THEN <<>>
               ELSE <<table[CHOOSE i \in hits : \A j \in hits : i <= j]>>

\* variable ? variable.name : 'variable'
nameOrVariable(variable) ==
  IF variable # <<>> THEN <<variable[1].name>> ELSE <<"variable">>

RECURSIVE getBlockMessage(_, _)

\* input ? getBlockMessage(input, variables) : placeholder, set into a template
messageOr(input, variables, placeholder) ==
  IF input # <<>> THEN interpolate(getBlockMessage(input[1], variables)) ELSE placeholder

controls_if(b) ==
  LET ifMessage == messageOr(getInputTargetBlock(b, "IF0"), <<>>, <<"condition">>)
      doMessage == messageOr(getInputTargetBlock(b, "DO0"), <<>>, <<"statement">>)
  IN  Str(<<"If ">> \o ifMessage \o <<" then ">> \o doMessage)

logic_compare(b) ==
  LET op == getFieldValue(b, "OP")
      aMessage == messageOr(getInputTargetBlock(b, "A"), <<>>, <<"value A">>)
      bMessage == messageOr(getInputTargetBlock(b, "B"), <<>>, <<"value B">>)
      opMessages == [EQ |-> <<"equals">>, NEQ |-> <<"doesn't equal">>,
                     LT |-> <<"is less than">>, LTE |-> <<"is less than or equals">>,
                     GT |-> <<"is greater than">>, GTE |-> <<"is greater than or equals">>]
  IN  Str(aMessage \o <<" ">> \o interpolate(lookup(opMessages, op)) \o <<" ">> \o bMessage)

logic_negate(b) ==
  LET boolMessage == messageOr(getInputTargetBlock(b, "BOOL"), <<>>, <<>>)
  IN  Str(<<"Not ">> \o boolMessage)

logic_boolean(b) ==
  LET boolValue == getFieldValue(b, "BOOL")
      boolMessages == [TRUE |-> <<"true">>, FALSE |-> <<"false">>]
  IN  Str(interpolate(lookup(boolMessages, boolValue)))

controls_repeat_ext(b) ==
  LET timesInput == getInputTargetBlock(b, "TIMES")
      timesMessage == IF timesInput # <<>> /\ timesInput[1].type = "math_number"
                        THEN fieldText(getFieldValue(timesInput[1], "NUM"))
                        ELSE <<"NUM">>
      doMessage == messageOr(getInputTargetBlock(b, "DO"), <<>>, <<"statements">>)
  IN  Str(<<"Repeat the following ">> \o timesMessage \o <<" times: ">> \o doMessage)

controls_whileUntil(b) ==
  LET mode == getFieldValue(b, "MODE")
      boolMessage == messageOr(getInputTargetBlock(b, "BOOL"), <<>>, <<"condition">>)
      doMessage == messageOr(getInputTargetBlock(b, "DO"), <<>>, <<"statements">>)
      modeMessages ==
        [WHILE |-> <<"While ">> \o boolMessage \o <<" is true, repeat ">> \o doMessage \o <<".">>,
         UNTIL |-> <<"Until ">> \o boolMessage \o <<" is true, repeat ">> \o doMessage \o <<".">>]
  IN  lookup(modeMessages, mode)

math_number(b) ==
  Str(fieldText(getFieldValue(b, "NUM")))

math_arithmetic(b) ==
  LET op == getFieldValue(b, "OP")
      aMessage == messageOr(getInputTargetBlock(b, "A"), <<>>, <<"value A">>)
      bMessage == messageOr(getInputTargetBlock(b, "B"), <<>>, <<"value B">>)
      opMessages == [ADD |-> <<"add to">>, MINUS |-> <<"minus">>, MULTIPLY |-> <<"times">>,
                     DIVIDE |-> <<"divided by">>, POWER |-> <<"to the power of">>]
  IN  Str(aMessage \o <<" ">> \o interpolate(lookup(opMessages, op)) \o <<" ">> \o bMessage)

variables_get(b, variables) ==
  IF variables = <<>>
    THEN Str(<<"variable">>)
    ELSE Str(nameOrVariable(find(variables, getFieldValue(b, "VAR"))))

variables_set(b, variables) ==
  LET variableName == nameOrVariable(find(variables, getFieldValue(b, "VAR")))
      valueMessage == messageOr(getInputTargetBlock(b, "VALUE"), variables, <<"value">>)
  IN  Str(<<"Set ">> \o variableName \o <<" to ">> \o valueMessage)

\* the block types that have an entry in blockDescriptions, of those modelled
blockDescriptions ==
  {"controls_if", "logic_compare", "logic_negate", "logic_boolean", "controls_repeat_ext",
   "controls_whileUntil", "math_number", "math_arithmetic", "variables_get", "variables_set"}

getBlockMessage(b, variables) ==
  IF b.type \in blockDescriptions
    THEN CASE b.type = "controls_if" -> controls_if(b)
           [] b.type = "logic_compare" -> logic_compare(b)
           [] b.type = "logic_negate" -> logic_negate(b)
           [] b.type = "logic_boolean" -> logic_boolean(b)
           [] b.type = "controls_repeat_ext" -> controls_repeat_ext(b)
           [] b.type = "controls_whileUntil" -> controls_whileUntil(b)
           [] b.type = "math_number" -> math_number(b)
           [] b.type = "math_arithmetic" -> math_arithmetic(b)
           [] b.type = "variables_get" -> variables_get(b, variables)
           [] b.type = "variables_set" -> variables_set(b, variables)
    ELSE Str(<<"Block of type ", b.type>>)

\* what a call returned: a string, or an exception instead of one
Returned(parts) == [done |-> TRUE, thrown |-> FALSE, text |-> parts]
Thrown == [done |-> TRUE, thrown |-> TRUE, text |-> <<>>]
NotCalled == [done |-> FALSE, thrown |-> FALSE, text |-> <<>>]

\* getBlockDescription(block) in a workspace with the variables of the table;
\* of the types without an entry in blockDescriptions, the p5 blocks.
\* detailedDescription.startsWith is a TypeError when getBlockMessage has
\* returned undefined.
getBlockDescription(b, table) ==
  LET detailedDescription == getBlockMessage(b, <<table>>)
  IN  IF ~detailedDescription.defined
        THEN Thrown
      ELSE IF ~startsWith(detailedDescription.text, <<"Block of type ">>)
        THEN Returned(detailedDescription.text)
      ELSE CASE b.type = "p5_setup" -> Returned(<<"Setup block">>)
             [] b.type = "p5_draw" -> Returned(<<"Draw block">>)

\* the blocks described: values, conditions, statements and the blocks that
\* hold them, with every input either empty or filled
Optional(blocks) == {<<>>} \cup {<<b>> : b \in blocks}

NoFields == [name \in {} |-> ""]
NoInputs == [name \in {} |-> <<>>]

\* the variables of the workspace; no variable has the id "id9"
Variables == <<[name |-> "count", id |-> "id1"], [name |-> "total", id |-> "id2"]>>

ValueLeaves ==
  {Block("math_number", [NUM |-> "1"], NoInputs)}
    \cup {Block("variables_get", [VAR |-> id], NoInputs) : id \in {"id1", "id9"}}

Values ==
  ValueLeaves
    \cup {Block("math_arithmetic", [OP |-> op], [A |-> a, B |-> b]) :
            op \in {"ADD"}, a \in Optional(ValueLeaves), b \in Optional(ValueLeaves)}

Conditions ==
  {Block("logic_boolean", [BOOL |-> "TRUE"], NoInputs),
   Block("logic_negate", NoFields, [BOOL |-> <<>>]),
   Block("logic_negate", NoFields,
         [BOOL |-> <<Block("logic_boolean", [BOOL |-> "FALSE"], NoInputs)>>])}
    \cup {Block("logic_compare", [OP |-> op], [A |-> a, B |-> b]) :
            op \in {"LTE", Null}, a \in Optional(ValueLeaves), b \in Optional(ValueLeaves)}

Statements ==
  {Block("p5_draw", NoFields, NoInputs)}
    \cup {Block("variables_set", [VAR |-> id], [VALUE |-> v]) :
            id \in {"id2", "id9"}, v \in Optional(Values)}

Containers ==
  {Block("controls_if", NoFields, [IF0 |-> c, DO0 |-> s]) :
     c \in Optional(Conditions), s \in Optional(Statements)}
    \cup {Block("controls_whileUntil", [MODE |-> mode], [BOOL |-> c, DO |-> s]) :
            mode \in {"WHILE", "UNTIL", Null},
            c \in Optional(Conditions), s \in Optional({Block("p5_draw", NoFields, NoInputs)})}
    \cup {Block("controls_repeat_ext", NoFields, [TIMES |-> v, DO |-> s]) :
            v \in Optional(ValueLeaves), s \in Optional(Statements)}

Blocks == Values \cup Conditions \cup Statements \cup Containers \cup
          {Block("p5_setup", NoFields, NoInputs)}

\* ----------------------------------------------------- stack navigation
\* most stacks in a workspace
MaxStacks == 3

\* threshold of the comparator: blocks further apart in y are in different rows
rowHeight == 50

\* where roots of stacks are put
StackXs == {0, 100}
StackYs == {0, 40, 80}

Abs(n) == IF n < 0 THEN -n ELSE n

\* the comparator of navigateToStack
compareBlocks(a, b) ==
  IF Abs(a.y - b.y) > rowHeight THEN a.y - b.y ELSE a.x - b.x

\* the comparator orders the blocks consistently, as Array.prototype.sort requires
consistentComparator(blocks) ==
  \A a, b, c \in Range(blocks) :
    /\ (compareBlocks(a, b) < 0 /\ compareBlocks(b, c) < 0) => compareBlocks(a, c) < 0
    /\ (compareBlocks(a, b) = 0 /\ compareBlocks(b, c) = 0) => compareBlocks(a, c) = 0

Permutations(blocks) ==
  {p \in [1..Len(blocks) -> Range(blocks)] : \A i, j \in 1..Len(blocks) : p[i] = p[j] => i = j}

positionIn(blocks, a) == CHOOSE i \in 1..Len(blocks) : blocks[i] = a

\* topBlocks.sort(comparator): the stable sorted order when the comparator is
\* consistent; with an inconsistent one the order is implementation-defined,
\* some arrangement of the same blocks
sortOutcomes(blocks) ==
  IF consistentComparator(blocks)
    THEN {p \in Permutations(blocks) :
            \A i, j \in 1..Len(blocks) :
              i < j => \/ compareBlocks(p[i], p[j]) < 0
                       \/ /\ compareBlocks(p[i], p[j]) = 0
                          /\ positionIn(blocks, p[i]) < positionIn(blocks, p[j])}
    ELSE Permutations(blocks)

\* a block of a stack below its root has the root's id plus MaxStacks
getParent(b) == IF b > MaxStacks THEN b - MaxStacks ELSE 0

RECURSIVE findRootBlock(_)
findRootBlock(b) == IF getParent(b) # 0 THEN findRootBlock(getParent(b)) ELSE b

\* sortedBlocks.findIndex(block => block === currentRoot)
findIndex(sortedBlocks, currentRoot) ==
  LET hits == {i \in 1..Len(sortedBlocks) : sortedBlocks[i].id = currentRoot}
  IN  IF hits = {} THEN -1 ELSE (CHOOSE i \in hits : \A j \in hits : i <= j) - 1

\* a mutation of nextIndex: the last stack is followed by itself
nextIndexNoWrap(currentIndex, length) ==
  IF currentIndex + 1 < length THEN currentIndex + 1 ELSE currentIndex

\* (currentIndex + 1) % sortedBlocks.length
nextIndex(currentIndex, length) == (currentIndex + 1) % length

\* the index navigateToStack(workspace, 'next') moves to
targetIndex(sortedBlocks, currentBlock) ==
  IF currentBlock = 0
    THEN 0
    ELSE LET currentIndex == findIndex(sortedBlocks, findRootBlock(currentBlock))
         IN  IF currentIndex = -1 THEN 0 ELSE nextIndex(currentIndex, Len(sortedBlocks))

\* ---------------------------------------------- toolbox first letters
\* the window within which the same letter moves on to the next match
letterWindow == 2000

\* what the clock of the toolbox model advances by
letterTick == 1000

\* most select events waiting for the listeners
MaxEvents == 2

\* the letters the shortcut is registered for
ToolboxLetters == {"L", "M", "T", "V", "F", "P"}

lowerToUpper ==
  {<<"a", "A">>, <<"b", "B">>, <<"c", "C">>, <<"d", "D">>, <<"e", "E">>, <<"f", "F">>,
   <<"g", "G">>, <<"h", "H">>, <<"i", "I">>, <<"j", "J">>, <<"k", "K">>, <<"l", "L">>,
   <<"m", "M">>, <<"n", "N">>, <<"o", "O">>, <<"p", "P">>, <<"q", "Q">>, <<"r", "R">>,
   <<"s", "S">>, <<"t", "T">>, <<"u", "U">>, <<"v", "V">>, <<"w", "W">>, <<"x", "X">>,
   <<"y", "Y">>, <<"z", "Z">>}

upperCaseChar(c) ==
  IF \E p \in lowerToUpper : p[1] = c
    THEN (CHOOSE p \in lowerToUpper : p[1] = c)[2]
    ELSE c

\* name.toUpperCase()
toUpperCase(name) == [i \in 1..Len(name) |-> upperCaseChar(name[i])]

\* a category of the toolbox, and an item that has no name
Category(name, selectable) == [hasName |-> TRUE, name |-> name, selectable |-> selectable]
Separator == [hasName |-> FALSE, name |-> <<>>, selectable |-> FALSE]

\* the toolboxes of the model: the categories of the demo page, a toolbox
\* with one category for each of two letters, and one with a category that
\* cannot be selected and a name in lower case
Toolboxes ==
  {<<Category(<<"L", "o", "g", "i", "c">>, TRUE), Category(<<"L", "o", "o", "p", "s">>, TRUE),
     Category(<<"M", "a", "t", "h">>, TRUE), Category(<<"T", "e", "x", "t">>, TRUE),
     Category(<<"L", "i", "s", "t", "s">>, TRUE), Separator,
     Category(<<"V", "a", "r", "i", "a", "b", "l", "e", "s">>, TRUE), Category(<<"F", "u", "n", "c", "t", "i", "o", "n", "s">>, TRUE)>>,
   <<Category(<<"M", "a", "t", "h">>, TRUE), Category(<<"T", "e", "x", "t">>, TRUE)>>,
   <<Category(<<"L", "a", "b", "e", "l", "s">>, FALSE), Category(<<"l", "i", "s", "t", "s">>, TRUE),
     Separator, Category(<<"L", "o", "g", "i", "c">>, TRUE)>>}

\* the positions (from 0) of allItems.filter(...): the categories whose name
\* in upper case starts with the letter and that can be selected
matchingItems(allItems, letter) ==
  LET hits == {i \in 1..Len(allItems) :
                 /\ allItems[i].hasName
                 /\ startsWith(toUpperCase(allItems[i].name), <<letter>>)
                 /\ allItems[i].selectable}
      RECURSIVE inOrder(_)
      inOrder(rest) ==
        IF rest = {}
          THEN <<>>
          ELSE LET i == CHOOSE i \in rest : \A j \in rest : i <= j
               IN  <<i - 1>> \o inOrder(rest \ {i})
  IN  inOrder(hits)

\* letter === this.lastToolboxLetter && (currentTime - this.lastToolboxLetterTime) < 2000
sameLetterInTime(letter, lastLetter, elapsed) ==
  letter = lastLetter /\ elapsed < letterWindow

\* the fields of the controller and the toolbox's selection as one value
Tb ==
  [lastToolboxLetter |-> lastToolboxLetter, sinceToolboxLetter |-> sinceToolboxLetter,
   currentToolboxLetterIndex |-> currentToolboxLetterIndex, selectedItem |-> selectedItem,
   selectEvents |-> selectEvents]

\* handleToolboxFirstLetter(workspace, letter); toolbox.selectItemByPosition
\* selects the item at the position and fires a select event
handleToolboxFirstLetter(T, allItems, letter) ==
  LET matching == matchingItems(allItems, letter)
      cycles == sameLetterInTime(letter, T.lastToolboxLetter, T.sinceToolboxLetter)
      index == IF cycles
                 THEN (T.currentToolboxLetterIndex + 1) % Len(matching)
                 ELSE 0
  IN  IF matching = <<>>
        THEN T
        ELSE [T EXCEPT !.currentToolboxLetterIndex = index,
                       !.lastToolboxLetter = letter,
                       !.sinceToolboxLetter = 0,
                       !.selectedItem = matching[index + 1],
                       !.selectEvents = @ + 1]

\* ------------------------------------------------------------ dropdown menus
\* setupComprehensiveMenuListeners: a MutationObserver on document.body sees the
\* style changes of the dropdown div; 100 ms after the div is seen to open the
\* opening is announced and monitorDropdownMenu is run every 50 ms, and 30 s
\* later the interval that is then running is cleared.
openDelay == 100
monitorPeriod == 50
clearDelay == 30000

\* most items of a dropdown
MaxItems == 2

\* most monitor periods that pass one by one
MaxMenuTicks == 10

\* a stretch of time that passes at once while the page is left alone
menuLeap == 29800

\* the menu timers after time d
timersAfter(timers, d) == {[kind |-> t.kind, left |-> t.left - d] : t \in timers}

\* ------------------------------------------------------------ actions
keyVars == <<isDeletingAll, deleteAllTimers, deleteSuppressed>>
textVars == <<rawText, fieldValue, passes>>
\* the variables of the functions that do not touch the reader's state
settingsVars == <<settings, selectedVoice, voicesLoaded, dialogSettings, configured, raised>>
describeVars == <<block, variableTable, description>>
stackVars == <<topBlocks, engineOrder, cursorBlock, stackMessage, visited>>
\* the variables of the keyboard navigation outside the workspace cursor's watcher
toolboxVars == <<toolboxItems, lastToolboxLetter, sinceToolboxLetter,
                 currentToolboxLetterIndex, selectedItem, selectEvents, toolboxMessage,
                 lastKey, sinceKey>>
menuVars == <<dropdownVisible, menuItemsShown, isMenuOpen, hasAnnouncedMenuOpen,
              monitorInterval, menuTimers, openedFor, announcedOpening, openedAtRest,
              menuTicks>>
cleanupVars == <<cleanupTimeout, cleanupTimers, nextTimerId, readOnly, topBlockCount,
                 cleanUps, sinceBlockEvent, burstOpen, burstEvents, cleanupDisposed>>
\* the variables of the objects beside the reader
dialogVars == <<dialogOpen, originalSettings, persisted, atOpen, dialogEvents>>
auxVars == <<cleanupVars, dialogVars>>
uiVars == <<stackVars, toolboxVars, menuVars, auxVars>>
restVars == <<textVars, settingsVars, describeVars, uiVars>>
pollVars == <<cursorInterval, flyoutInterval, curNode, flyoutBlock, lastWorkspaceNodeId,
              lastAnnouncedBlockId, hasLeftWorkspace, workspaceHasFocus, observedNode,
              focusReturned, focusLost, keyVars>>

\* the scheduler and the device, for the handlers that do not speak
readerVars == <<speechAvailable, cancelNotifies, isEnabled, currentUtterance, utteranceParams,
                timeSpoken, pendingMessage, interruptionTimer, isSpeaking, timeouts, queue,
                queueAge, cancelEvents, submitted, nextReq, history, disposed>>

\* what a request was, and the state it met
ReqRecord(kind, S1) ==
  [kind |-> kind,
   enabled |-> isEnabled,
   behind |-> IF S1.pendingMessage = nextReq THEN currentUtterance ELSE 0,
   replaced |-> pendingMessage,
   cut |-> IF queue # <<>> /\ S1.queue = <<>> THEN queue[1] ELSE 0,
   mark |-> Len(submitted)]

\* a request with text nextReq that takes the scheduler to S1
Request(kind, S1) ==
  /\ nextReq <= MaxReq
  /\ nextReq' = nextReq + 1
  /\ reqs' = Append(reqs, ReqRecord(kind, S1))
  /\ Become(S1)
  /\ UNCHANGED <<speechAvailable, cancelNotifies, enableMark, disableMark, disposed>>

\* speak(message) and speakHighPriority(message), called by a listener
Speak(priority) ==
  /\ Request(priority, speak(St, nextReq, priority))
  /\ UNCHANGED <<pollVars, restVars>>

ForceSpeek ==
  /\ Request("force", forceSpeek(St, nextReq))
  /\ UNCHANGED <<pollVars, restVars>>

\* setEnabled(enabled), also as called by updateSettings(newSettings)
SetEnabled(enabled) ==
  /\ Become(setEnabled(St, enabled))
  /\ enableMark' = IF enabled /\ ~isEnabled THEN nextReq ELSE enableMark
  /\ disableMark' = IF ~enabled THEN nextReq ELSE disableMark
  /\ UNCHANGED <<speechAvailable, cancelNotifies, nextReq, reqs, disposed, pollVars, restVars>>

TimeoutFires ==
  \E t \in timeouts :
    /\ t.left = 0
    /\ t.kind \in {"interrupt", "settle"}
    /\ Become(timeoutCallback([St EXCEPT !.timeouts = @ \ {t}], t))
    /\ UNCHANGED <<speechAvailable, cancelNotifies, nextReq, history, disposed, pollVars, restVars>>

\* the device has removed the utterance it was speaking; the next one starts
headRemoved(S) ==
  [S EXCEPT !.queue = Tail(@), !.queueAge = Tail(@)]

nextStarts(S) ==
  IF S.queue # <<>> THEN [S EXCEPT !.isSpeaking = TRUE] ELSE S

\* the utterance being spoken completes
UtteranceEnds ==
  /\ queue # <<>>
  /\ Become(nextStarts(onend(headRemoved(St))))
  /\ UNCHANGED <<speechAvailable, cancelNotifies, nextReq, history, disposed, pollVars, restVars>>

\* the device fails on the utterance being spoken
UtteranceFails ==
  /\ queue # <<>>
  /\ Become(nextStarts(onerror(headRemoved(St))))
  /\ UNCHANGED <<speechAvailable, cancelNotifies, nextReq, history, disposed, pollVars, restVars>>

\* the terminal event of an utterance removed by cancel() is dispatched
CancelledUtteranceEvent ==
  \E u \in cancelEvents :
    /\ \/ Become(onend([St EXCEPT !.cancelEvents = @ \ {u}]))
       \/ Become(onerror([St EXCEPT !.cancelEvents = @ \ {u}]))
    /\ UNCHANGED <<speechAvailable, cancelNotifies, nextReq, history, disposed, pollVars, restVars>>

Older(age) == IF age < MaxAge THEN age + settleDelay ELSE age

\* settleDelay milliseconds pass
Tick ==
  /\ \A t \in timeouts : t.left > 0
  /\ \A left \in deleteAllTimers : left > 0
  /\ cancelEvents = {}
  /\ timeouts' = {[t EXCEPT !.left = @ - settleDelay] : t \in timeouts}
  /\ deleteAllTimers' = {left - settleDelay : left \in deleteAllTimers}
  /\ timeSpoken' = Older(timeSpoken)
  /\ queueAge' = [i \in 1..Len(queueAge) |-> Older(queueAge[i])]
  /\ UNCHANGED <<speechAvailable, cancelNotifies, isEnabled, currentUtterance, utteranceParams, pendingMessage,
                 interruptionTimer, isSpeaking, queue, cancelEvents, submitted, nextReq,
                 history, disposed, cursorInterval, flyoutInterval, curNode, flyoutBlock,
                 lastWorkspaceNodeId, lastAnnouncedBlockId, hasLeftWorkspace,
                 workspaceHasFocus, focusReturned, focusLost, observedNode, isDeletingAll, deleteSuppressed, restVars>>

\* dispose()
Dispose ==
  /\ Become(dispose(St))
  /\ cursorInterval' = FALSE
  /\ disposed' = TRUE
  /\ UNCHANGED <<speechAvailable, cancelNotifies, nextReq, history, flyoutInterval, curNode, flyoutBlock,
                 lastWorkspaceNodeId, lastAnnouncedBlockId, hasLeftWorkspace,
                 workspaceHasFocus, focusReturned, focusLost, observedNode, keyVars, restVars>>

\* this.hasLeftWorkspace after a tick that announces, were the flag never lowered
flagKept(hasLeft, hasFocus) == hasLeft

\* this.hasLeftWorkspace after a tick that announces
flagAfterAnnouncement(hasLeft, hasFocus) ==
  IF hasLeft /\ hasFocus THEN FALSE ELSE hasLeft

\* the 250 ms callback of setupWorkspaceCursorListener
CursorPollTick ==
  /\ cursorInterval
  /\ curNode # NoNode
  /\ observedNode' = curNode
  /\ focusReturned' = FALSE
  /\ IF \/ lastWorkspaceNodeId # getNodeIdentifier(curNode)
        \/ (workspaceHasFocus /\ hasLeftWorkspace)
       THEN /\ lastWorkspaceNodeId' = getNodeIdentifier(curNode)
            /\ Request("high", speak(St, nextReq, "high"))   \* announceNode(curNode)
            /\ hasLeftWorkspace' = flagAfterAnnouncement(hasLeftWorkspace, workspaceHasFocus)
            /\ focusLost' = ~workspaceHasFocus
            /\ UNCHANGED <<cursorInterval, flyoutInterval, curNode, flyoutBlock,
                           lastAnnouncedBlockId, workspaceHasFocus, keyVars, restVars>>
       ELSE UNCHANGED <<speechAvailable, cancelNotifies, isEnabled, currentUtterance, utteranceParams,
                        timeSpoken, pendingMessage, interruptionTimer, isSpeaking,
                        timeouts, queue, queueAge, cancelEvents, submitted, nextReq,
                        history, disposed, cursorInterval, flyoutInterval, curNode,
                        flyoutBlock, lastWorkspaceNodeId, lastAnnouncedBlockId,
                        hasLeftWorkspace, workspaceHasFocus, focusLost, keyVars, restVars>>

\* the 500 ms callback installed by setupWorkspaceEventListeners
FlyoutPollTick ==
  /\ flyoutInterval
  /\ IF flyoutBlock # "" /\ (lastAnnouncedBlockId = "" \/ lastAnnouncedBlockId # flyoutBlock)
       THEN /\ lastAnnouncedBlockId' = flyoutBlock
            /\ Request("normal", speak(St, nextReq, "normal"))
            /\ UNCHANGED <<cursorInterval, flyoutInterval, curNode, flyoutBlock,
                           lastWorkspaceNodeId, hasLeftWorkspace, workspaceHasFocus, focusReturned, focusLost,
                           observedNode, keyVars, restVars>>
       ELSE UNCHANGED vars

\* the user moves the workspace cursor
MoveCursor ==
  /\ \E n \in Nodes : n # curNode /\ curNode' = n
  /\ UNCHANGED <<speechAvailable, cancelNotifies, isEnabled, currentUtterance, utteranceParams, timeSpoken, pendingMessage,
                 interruptionTimer, isSpeaking, timeouts, queue, queueAge, cancelEvents,
                 submitted, nextReq, history, disposed, cursorInterval, flyoutInterval,
                 flyoutBlock, lastWorkspaceNodeId, lastAnnouncedBlockId, hasLeftWorkspace,
                 workspaceHasFocus, focusReturned, focusLost, observedNode, keyVars, restVars>>

\* the user moves the flyout cursor
MoveFlyoutCursor ==
  /\ \E b \in FlyoutBlocks : b # flyoutBlock /\ flyoutBlock' = b
  /\ UNCHANGED <<speechAvailable, cancelNotifies, isEnabled, currentUtterance, utteranceParams, timeSpoken, pendingMessage,
                 interruptionTimer, isSpeaking, timeouts, queue, queueAge, cancelEvents,
                 submitted, nextReq, history, disposed, cursorInterval, flyoutInterval,
                 curNode, lastWorkspaceNodeId, lastAnnouncedBlockId, hasLeftWorkspace,
                 workspaceHasFocus, focusReturned, focusLost, observedNode, keyVars, restVars>>

\* Tab is pressed: the keydown listener of setupKeyboardShortcuts runs, then focus moves
TabKey ==
  /\ hasLeftWorkspace' = IF workspaceHasFocus THEN TRUE ELSE hasLeftWorkspace
  /\ workspaceHasFocus' \in BOOLEAN
  /\ focusReturned' = (focusReturned \/ (~workspaceHasFocus /\ workspaceHasFocus'))
  /\ focusLost' = (focusLost \/ ~workspaceHasFocus')
  /\ UNCHANGED <<speechAvailable, cancelNotifies, isEnabled, currentUtterance, utteranceParams, timeSpoken, pendingMessage,
                 interruptionTimer, isSpeaking, timeouts, queue, queueAge, cancelEvents,
                 submitted, nextReq, history, disposed, cursorInterval, flyoutInterval,
                 curNode, flyoutBlock, lastWorkspaceNodeId, lastAnnouncedBlockId,
                 observedNode, keyVars, restVars>>

\* the flyout element is given the focus: its focus listener
FlyoutFocus ==
  /\ hasLeftWorkspace' = TRUE
  /\ workspaceHasFocus' = FALSE
  /\ focusLost' = TRUE
  /\ Request("normal", speak(St, nextReq, "normal"))
  /\ UNCHANGED <<cursorInterval, flyoutInterval, curNode, flyoutBlock, lastWorkspaceNodeId,
                 lastAnnouncedBlockId, observedNode, focusReturned, keyVars, restVars>>

\* the focus is moved by the pointer or by a script, into the workspace or out
\* of it to an element other than the flyout: no listener of the reader runs
PointerFocus ==
  /\ workspaceHasFocus' = ~workspaceHasFocus
  /\ focusReturned' = (focusReturned \/ ~workspaceHasFocus)
  /\ focusLost' = (focusLost \/ workspaceHasFocus)
  /\ UNCHANGED <<readerVars, cursorInterval, flyoutInterval, curNode, flyoutBlock,
                 lastWorkspaceNodeId, lastAnnouncedBlockId, hasLeftWorkspace, observedNode,
                 keyVars, restVars>>

\* keydown of the D key; plain = no Ctrl, Meta or Alt and the workspace is not read-only
DeleteAllKey(plain) ==
  IF workspaceHasFocus /\ plain
    THEN /\ isDeletingAll' = TRUE
         /\ Request("force", forceSpeek(St, nextReq))
         /\ deleteAllTimers' = deleteAllTimers \cup {deleteAllDelay}
         /\ UNCHANGED <<cursorInterval, flyoutInterval, curNode, flyoutBlock,
                        lastWorkspaceNodeId, lastAnnouncedBlockId, hasLeftWorkspace,
                        workspaceHasFocus, focusReturned, focusLost, observedNode, deleteSuppressed, restVars>>
    ELSE UNCHANGED vars

\* the 1000 ms timeout of the D key fires
DeletingAllExpires ==
  /\ 0 \in deleteAllTimers
  /\ deleteAllTimers' = deleteAllTimers \ {0}
  /\ isDeletingAll' = FALSE
  /\ UNCHANGED <<speechAvailable, cancelNotifies, isEnabled, currentUtterance, utteranceParams, timeSpoken,
                 pendingMessage, interruptionTimer, isSpeaking, timeouts, queue, queueAge,
                 cancelEvents, submitted, nextReq, history, disposed, cursorInterval,
                 flyoutInterval, curNode, flyoutBlock, lastWorkspaceNodeId,
                 lastAnnouncedBlockId, hasLeftWorkspace, workspaceHasFocus, focusReturned, focusLost, observedNode,
                 deleteSuppressed, restVars>>

\* a BLOCK_DELETE event is announced every time
announcesEveryBlockDelete(deletingAll) == TRUE

\* if (!this.isDeletingAll) of the BLOCK_DELETE branch of the change listener
announcesBlockDelete(deletingAll) == ~deletingAll

\* the workspace change listener receives a BLOCK_DELETE event
BlockDeleteEvent ==
  IF announcesBlockDelete(isDeletingAll)
    THEN /\ Request("normal", speak(St, nextReq, "normal"))
         /\ UNCHANGED <<pollVars, restVars>>
    ELSE /\ deleteSuppressed' = TRUE
         /\ UNCHANGED <<speechAvailable, cancelNotifies, isEnabled, currentUtterance, utteranceParams,
                        timeSpoken, pendingMessage, interruptionTimer, isSpeaking,
                        timeouts, queue, queueAge, cancelEvents, submitted, nextReq,
                        history, disposed, cursorInterval, flyoutInterval, curNode,
                        flyoutBlock, lastWorkspaceNodeId, lastAnnouncedBlockId,
                        hasLeftWorkspace, workspaceHasFocus, focusReturned, focusLost, observedNode,
                        isDeletingAll, deleteAllTimers, restVars>>

\* getDefaultSettings(), with rate, pitch and volume in tenths
getDefaultSettings ==
  [enabled |-> TRUE, rate |-> 17, pitch |-> 10, volume |-> 10, voiceIndex |-> 0]

\* the settings objects the dialog can hold: the defaults, other values with
\* the second voice, and a disabled reader with a voice index the device does
\* not have
SettingsObjects ==
  {getDefaultSettings,
   [enabled |-> TRUE, rate |-> 5, pitch |-> 20, volume |-> 3, voiceIndex |-> 1],
   [enabled |-> FALSE, rate |-> 20, pitch |-> 5, volume |-> 7, voiceIndex |-> NumVoices]}

\* the user changes a control of the settings dialog
EditDialog ==
  /\ \E s \in SettingsObjects : s # dialogSettings /\ dialogSettings' = s
  /\ UNCHANGED <<speechAvailable, cancelNotifies, isEnabled, currentUtterance, utteranceParams,
                 timeSpoken, pendingMessage, interruptionTimer, isSpeaking, timeouts, queue,
                 queueAge, cancelEvents, submitted, nextReq, history, disposed, pollVars,
                 textVars, describeVars, uiVars, settings, selectedVoice, voicesLoaded, configured,
                 raised>>

\* updateSettings(newSettings), called by the dialog with the object it holds.
\* applyVoiceSettings reads window.speechSynthesis.getVoices() without asking
\* whether the window has speechSynthesis: without it the call is a TypeError,
\* raised after the settings and the enabled flag have been assigned.
UpdateSettings ==
  /\ settings' = [k \in DOMAIN dialogSettings |-> dialogSettings[k]]
  /\ Become(setEnabled(St, dialogSettings.enabled))
  /\ selectedVoice' = IF speechAvailable
                        THEN applyVoiceSettings(getVoices, dialogSettings.voiceIndex)
                        ELSE selectedVoice
  /\ raised' = (raised \/ ~speechAvailable)
  /\ configured' = dialogSettings
  /\ enableMark' = IF dialogSettings.enabled /\ ~isEnabled THEN nextReq ELSE enableMark
  /\ disableMark' = IF ~dialogSettings.enabled THEN nextReq ELSE disableMark
  /\ UNCHANGED <<speechAvailable, cancelNotifies, nextReq, reqs, disposed, pollVars,
                 textVars, describeVars, uiVars, voicesLoaded, dialogSettings>>

\* delay of the announcement that follows the loading of the voices
testDelay == 100

\* speechSynthesis.onvoiceschanged: the voices have been loaded
VoicesChanged ==
  /\ speechAvailable
  /\ ~voicesLoaded
  /\ voicesLoaded' = TRUE
  /\ selectedVoice' = applyVoiceSettings([i \in 1..NumVoices |-> i], settings.voiceIndex)
  /\ timeouts' = timeouts \cup {[kind |-> "test", left |-> testDelay, msg |-> 0]}
  /\ UNCHANGED <<speechAvailable, cancelNotifies, isEnabled, currentUtterance, utteranceParams,
                 timeSpoken, pendingMessage, interruptionTimer, isSpeaking, queue,
                 queueAge, cancelEvents, submitted, nextReq, history, disposed, pollVars,
                 textVars, describeVars, uiVars, settings, dialogSettings, configured,
                 raised>>

\* the timeout of testSpeechAfterVoicesLoaded fires
TestSpeechFires ==
  \E t \in timeouts :
    /\ t.kind = "test"
    /\ t.left = 0
    /\ Request("normal", speak([St EXCEPT !.timeouts = @ \ {t}], nextReq, "normal"))
    /\ UNCHANGED <<pollVars, restVars>>

\* resetSpeechSynthesis(), called by the host application
ResetSpeechSynthesis ==
  /\ Become(resetSpeechSynthesis(St))
  /\ UNCHANGED <<speechAvailable, cancelNotifies, nextReq, history, disposed, pollVars,
                 restVars>>

\* the timeout of resetSpeechSynthesis fires
ResetFires ==
  \E t \in timeouts :
    /\ t.kind = "reset"
    /\ t.left = 0
    /\ Request("normal", speak([St EXCEPT !.timeouts = @ \ {t}], nextReq, "normal"))
    /\ UNCHANGED <<pollVars, restVars>>

\* getBlockDescription(block), as announceNode and the change listener call it
DescribeBlock ==
  /\ block # <<>>
  /\ ~description.done
  /\ description' = getBlockDescription(block[1], variableTable)
  /\ UNCHANGED <<speechAvailable, cancelNotifies, isEnabled, currentUtterance, utteranceParams,
                 timeSpoken, pendingMessage, interruptionTimer, isSpeaking, timeouts, queue,
                 queueAge, cancelEvents, submitted, nextReq, history, disposed, pollVars,
                 textVars, settingsVars, uiVars, block, variableTable>>

\* the N key in the workspace: navigateToNextStack(workspace).  The sort is
\* that of the engine; moveToStack puts the cursor on the top node of the
\* target and hands 'Stack k of n: ...' to forceSpeek.
PressN ==
  IF Len(topBlocks) <= 1
    THEN /\ Request("force", forceSpeek(St, nextReq))
         /\ stackMessage' = [k |-> 0, n |-> 0]
         /\ UNCHANGED <<pollVars, textVars, settingsVars, describeVars, toolboxVars,
                        menuVars, auxVars, topBlocks, engineOrder, cursorBlock, visited>>
    ELSE LET sortedBlocks == engineOrder
             stackIndex == targetIndex(sortedBlocks, cursorBlock)
         IN  /\ Request("force", forceSpeek(St, nextReq))
             /\ cursorBlock' = sortedBlocks[stackIndex + 1].id
             /\ stackMessage' = [k |-> stackIndex + 1, n |-> Len(sortedBlocks)]
             /\ visited' = Append(visited, sortedBlocks[stackIndex + 1].id)
             /\ UNCHANGED <<pollVars, textVars, settingsVars, describeVars, toolboxVars,
                            menuVars, auxVars, topBlocks, engineOrder>>

Smaller(a, b) == IF a < b THEN a ELSE b

\* a letter key in the toolbox: the callback of TOOLBOX_FIRST_LETTER
PressLetter(letter) ==
  /\ selectEvents < MaxEvents
  /\ LET T == IF letter \in ToolboxLetters
                THEN handleToolboxFirstLetter(Tb, toolboxItems, letter)
                ELSE Tb
     IN  /\ lastToolboxLetter' = T.lastToolboxLetter
         /\ sinceToolboxLetter' = T.sinceToolboxLetter
         /\ currentToolboxLetterIndex' = T.currentToolboxLetterIndex
         /\ selectedItem' = T.selectedItem
         /\ selectEvents' = T.selectEvents
  /\ lastKey' = letter
  /\ sinceKey' = 0
  /\ UNCHANGED <<speechAvailable, cancelNotifies, isEnabled, currentUtterance, utteranceParams,
                 timeSpoken, pendingMessage, interruptionTimer, isSpeaking, timeouts, queue,
                 queueAge, cancelEvents, submitted, nextReq, history, disposed, pollVars,
                 textVars, settingsVars, describeVars, stackVars, menuVars, auxVars, toolboxItems,
                 toolboxMessage>>

\* time passes in the toolbox
LetterClockTick ==
  /\ sinceToolboxLetter < letterWindow \/ sinceKey < letterWindow
  /\ sinceToolboxLetter' = Smaller(sinceToolboxLetter + letterTick, letterWindow)
  /\ sinceKey' = Smaller(sinceKey + letterTick, letterWindow)
  /\ UNCHANGED <<speechAvailable, cancelNotifies, isEnabled, currentUtterance, utteranceParams,
                 timeSpoken, pendingMessage, interruptionTimer, isSpeaking, timeouts, queue,
                 queueAge, cancelEvents, submitted, nextReq, history, disposed, pollVars,
                 textVars, settingsVars, describeVars, stackVars, menuVars, auxVars, toolboxItems,
                 lastToolboxLetter, currentToolboxLetterIndex, selectedItem, selectEvents,
                 toolboxMessage, lastKey>>

\* the change listener of setupToolboxSelectionListener is given a
\* TOOLBOX_ITEM_SELECT event: it announces the category that is selected now
ToolboxItemSelect ==
  /\ selectEvents > 0
  /\ selectEvents' = selectEvents - 1
  /\ IF selectedItem # -1 /\ toolboxItems[selectedItem + 1].hasName
       THEN LET categoryName == toolboxItems[selectedItem + 1].name
                firstLetter == upperCaseChar(categoryName[1])
                matching == matchingItems(toolboxItems, firstLetter)
                found == {i \in 1..Len(matching) : matching[i] = selectedItem}
                currentIndex == IF found = {} THEN 0 ELSE CHOOSE i \in found : TRUE
            IN  /\ Request("high", speak(St, nextReq, "high"))
                /\ toolboxMessage' =
                     IF Len(matching) > 1
                       THEN <<categoryName, currentIndex, Len(matching)>>
                       ELSE <<categoryName>>
       ELSE UNCHANGED <<speechAvailable, cancelNotifies, isEnabled, currentUtterance,
                        utteranceParams, timeSpoken, pendingMessage, interruptionTimer,
                        isSpeaking, timeouts, queue, queueAge, cancelEvents, submitted,
                        nextReq, history, disposed, toolboxMessage>>
  /\ UNCHANGED <<pollVars, textVars, settingsVars, describeVars, stackVars, menuVars, auxVars,
                 toolboxItems, lastToolboxLetter, sinceToolboxLetter, currentToolboxLetterIndex,
                 selectedItem, lastKey, sinceKey>>

notUiVars == <<pollVars, textVars, settingsVars, describeVars>>
notMenuVars == <<pollVars, textVars, settingsVars, describeVars, stackVars, toolboxVars,
                 auxVars>>

\* Blockly shows the dropdown div with this many menu items in it, and the
\* observer is given the mutation of its style
ShowDropdown(items) ==
  /\ ~dropdownVisible
  /\ dropdownVisible' = TRUE
  /\ menuItemsShown' = items
  /\ openedFor' = 0
  /\ announcedOpening' = 0
  /\ openedAtRest' = (monitorInterval = -1 /\ \A t \in menuTimers : t.kind # "open")
  /\ IF ~isMenuOpen
       THEN /\ isMenuOpen' = TRUE
            /\ hasAnnouncedMenuOpen' = TRUE
            /\ menuTimers' = menuTimers \cup {[kind |-> "open", left |-> openDelay]}
       ELSE UNCHANGED <<isMenuOpen, hasAnnouncedMenuOpen, menuTimers>>
  /\ UNCHANGED <<readerVars, notMenuVars, monitorInterval, menuTicks>>

\* Blockly hides the dropdown div, its content kept or cleared; the observer
\* is given the mutation and does nothing, the div being invisible
HideDropdown ==
  /\ dropdownVisible
  /\ dropdownVisible' = FALSE
  /\ menuItemsShown' \in {0, menuItemsShown}
  /\ openedFor' = 0
  /\ UNCHANGED <<readerVars, notMenuVars, isMenuOpen, hasAnnouncedMenuOpen, monitorInterval,
                 menuTimers, announcedOpening, openedAtRest, menuTicks>>

\* the callback of the 100 ms timeout of the observer
OpenTimeoutFires ==
  /\ \E t \in menuTimers :
       /\ t.kind = "open"
       /\ t.left <= 0
       /\ IF menuItemsShown > 0
            THEN /\ Request("normal", speak(St, nextReq, "normal"))
                 /\ monitorInterval' = monitorPeriod
                 /\ menuTimers' = (menuTimers \ {t}) \cup
                                    {[kind |-> "clear", left |-> clearDelay]}
                 /\ announcedOpening' = announcedOpening + 1
            ELSE /\ menuTimers' = menuTimers \ {t}
                 /\ UNCHANGED <<readerVars, monitorInterval, announcedOpening>>
  /\ UNCHANGED <<notMenuVars, dropdownVisible, menuItemsShown, isMenuOpen,
                 hasAnnouncedMenuOpen, openedFor, openedAtRest, menuTicks>>

\* the callback of the 30 s timeout: it clears the interval that runs now
ClearTimeoutFires ==
  /\ \E t \in menuTimers :
       /\ t.kind = "clear"
       /\ t.left <= 0
       /\ menuTimers' = menuTimers \ {t}
  /\ monitorInterval' = -1
  /\ UNCHANGED <<readerVars, notMenuVars, dropdownVisible, menuItemsShown, isMenuOpen,
                 hasAnnouncedMenuOpen, openedFor, announcedOpening, openedAtRest, menuTicks>>

\* monitorDropdownMenu, called by the interval
MonitorFires ==
  /\ monitorInterval = 0
  /\ IF ~dropdownVisible /\ isMenuOpen
       THEN /\ isMenuOpen' = FALSE
            /\ hasAnnouncedMenuOpen' = FALSE
            /\ Request("normal", speak(St, nextReq, "normal"))
            /\ monitorInterval' = -1
       ELSE /\ monitorInterval' = monitorPeriod
            /\ UNCHANGED <<readerVars, isMenuOpen, hasAnnouncedMenuOpen>>
  /\ UNCHANGED <<notMenuVars, dropdownVisible, menuItemsShown, menuTimers, openedFor,
                 announcedOpening, openedAtRest, menuTicks>>

\* one monitor period passes on the page
MenuTimePasses ==
  /\ menuTicks < MaxMenuTicks
  /\ monitorInterval # 0
  /\ \A t \in menuTimers : t.left > 0
  /\ menuTicks' = menuTicks + 1
  /\ menuTimers' = timersAfter(menuTimers, monitorPeriod)
  /\ monitorInterval' = IF monitorInterval = -1 THEN -1 ELSE monitorInterval - monitorPeriod
  /\ openedFor' = IF dropdownVisible
                    THEN Smaller(openedFor + monitorPeriod, openDelay + monitorPeriod)
                    ELSE openedFor
  /\ UNCHANGED <<readerVars, notMenuVars, dropdownVisible, menuItemsShown, isMenuOpen,
                 hasAnnouncedMenuOpen, announcedOpening, openedAtRest>>

\* a long time passes in which no timeout is due and the monitor, if it
\* runs, finds the dropdown as it was
MenuTimeLeaps ==
  /\ menuTimers # {}
  /\ \A t \in menuTimers : t.kind = "clear" /\ t.left >= menuLeap
  /\ monitorInterval = -1 \/ (dropdownVisible /\ monitorInterval # 0)
  /\ menuTimers' = timersAfter(menuTimers, menuLeap)
  /\ openedFor' = IF dropdownVisible THEN openDelay + monitorPeriod ELSE openedFor
  /\ UNCHANGED <<readerVars, notMenuVars, dropdownVisible, menuItemsShown, isMenuOpen,
                 hasAnnouncedMenuOpen, monitorInterval, announcedOpening, openedAtRest,
                 menuTicks>>

\* ---------------------------------------------------------- AutoCleanup
\* AutoCleanup (src/unnamed/part_006): the workspace is tidied 100 ms after
\* the last block was created or deleted.  A timeout is kept with its id and
\* the time left until it is due.
CLEANUP_DELAY == 100

\* number of change events given to the listener of AutoCleanup
MaxBlockEvents == 4
\* number of stacks on the workspace
MaxTopBlocks == 2
\* longest time that passes in one step
cleanupTick == 50

\* clearTimeout(id)
clearTimeout(timers, id) == {t \in timers : t.id # id}

\* window.setTimeout(callback, delay), which returns id
setTimeout(timers, id, delay) == timers \cup {[id |-> id, left |-> delay]}

\* scheduleCleanup without the clearTimeout
scheduleCleanupKeepsTimeout(timeout, timers, id) ==
  [cleanupTimeout |-> id, cleanupTimers |-> setTimeout(timers, id, CLEANUP_DELAY)]

\* AutoCleanup.scheduleCleanup
scheduleCleanup(timeout, timers, id) ==
  LET cleared == IF timeout # 0 THEN clearTimeout(timers, timeout) ELSE timers
  IN  [cleanupTimeout |-> id, cleanupTimers |-> setTimeout(cleared, id, CLEANUP_DELAY)]

\* AutoCleanup.performCleanup: the number of calls of workspace.cleanUp()
performCleanup(isReadOnly, topBlocksLength) ==
  IF ~isReadOnly /\ topBlocksLength > 0 THEN 1 ELSE 0

BlockEventTypes == {"create", "delete", "move"}

\* the change listener of AutoCleanup is given an event of this type; count
\* is the number of stacks the change has left on the workspace
BlockEvent(type, count) ==
  /\ nextTimerId <= MaxBlockEvents
  /\ count \in {topBlockCount - 1, topBlockCount, topBlockCount + 1}
  /\ type = "create" => count >= topBlockCount /\ count > 0
  /\ type = "delete" => count <= topBlockCount
  /\ topBlockCount' = count
  /\ IF type \in {"create", "delete"}
       THEN LET C == scheduleCleanup(cleanupTimeout, cleanupTimers, nextTimerId)
            IN  /\ cleanupTimeout' = C.cleanupTimeout
                /\ cleanupTimers' = C.cleanupTimers
                /\ nextTimerId' = nextTimerId + 1
                /\ sinceBlockEvent' = 0
                /\ burstOpen' = TRUE
                /\ burstEvents' = IF burstOpen THEN burstEvents + 1 ELSE 1
       ELSE UNCHANGED <<cleanupTimeout, cleanupTimers, nextTimerId, sinceBlockEvent,
                        burstOpen, burstEvents>>
  /\ UNCHANGED <<readerVars, notUiVars, stackVars, toolboxVars, menuVars, dialogVars, readOnly, cleanUps, cleanupDisposed>>

\* a timeout of scheduleCleanup is due and its callback runs
CleanupTimeoutFires ==
  \E t \in cleanupTimers :
    /\ t.left <= 0
    /\ cleanupTimers' = cleanupTimers \ {t}
    /\ cleanUps' = cleanUps + performCleanup(readOnly, topBlockCount)
    /\ cleanupTimeout' = 0
    /\ burstOpen' = FALSE
    /\ UNCHANGED <<readerVars, notUiVars, stackVars, toolboxVars, menuVars, dialogVars, nextTimerId, readOnly, topBlockCount,
                   sinceBlockEvent, burstEvents, cleanupDisposed>>

\* AutoCleanup.dispose
AutoCleanupDispose ==
  /\ IF cleanupTimeout # 0
       THEN /\ cleanupTimers' = clearTimeout(cleanupTimers, cleanupTimeout)
            /\ cleanupTimeout' = 0
       ELSE UNCHANGED <<cleanupTimeout, cleanupTimers>>
  /\ cleanupDisposed' = TRUE
  /\ burstOpen' = FALSE
  /\ UNCHANGED <<readerVars, notUiVars, stackVars, toolboxVars, menuVars, dialogVars, nextTimerId, readOnly, topBlockCount,
                 cleanUps, sinceBlockEvent, burstEvents>>

\* time passes, up to the moment the next timeout is due
CleanupTimePasses ==
  /\ \A t \in cleanupTimers : t.left > 0
  /\ \E d \in 1..cleanupTick :
       /\ \A t \in cleanupTimers : t.left >= d
       /\ d < cleanupTick => \E t \in cleanupTimers : t.left = d
       /\ cleanupTimers' = {[t EXCEPT !.left = @ - d] : t \in cleanupTimers}
       /\ sinceBlockEvent' = Smaller(sinceBlockEvent + d, CLEANUP_DELAY + cleanupTick)
  /\ UNCHANGED <<readerVars, notUiVars, stackVars, toolboxVars, menuVars, dialogVars, cleanupTimeout, nextTimerId, readOnly,
                 topBlockCount, cleanUps, burstOpen, burstEvents, cleanupDisposed>>

\* ------------------------------------------------------- SettingsDialog
\* SettingsDialog (src/unnamed/part_004): dialogSettings is its
\* currentSettings.  The item of localStorage is kept as the settings object
\* it encodes (<<>> = no item): JSON.stringify and JSON.parse give back the
\* booleans and the finite numbers of a settings object as they were.
announceDelay == 100

\* number of events given to the dialog and to setScreenReaderEnabled
MaxDialogEvents == 4

\* one more event is given
DialogEvent ==
  /\ dialogEvents < MaxDialogEvents
  /\ dialogEvents' = dialogEvents + 1

\* loadSettings() of the reader and of the dialog
loadSettings(saved) == IF saved # <<>> THEN saved ELSE getDefaultSettings

\* what localStorage can hold at construction: nothing, or settings saved
\* by an earlier session
SavedItems ==
  {<<>>, [enabled |-> FALSE, rate |-> 5, pitch |-> 20, volume |-> 3, voiceIndex |-> 1]}

\* the values an input or change event of a control can carry
ControlValues ==
  [enabled |-> BOOLEAN, rate |-> {5, 17}, pitch |-> {10, 20}, volume |-> {3, 10},
   voiceIndex |-> 0..(NumVoices - 1)]

\* what the reader goes by: rate, pitch, volume and voice of this.settings,
\* and this.isEnabled
effective(s, enabled) == [s EXCEPT !.enabled = enabled]

\* screenReader.updateSettings(new) by a handler of the dialog, followed, if
\* speaks, by screenReader.testSpeechSettings(text nextReq)
DialogUpdates(new, speaks) ==
  LET S1 == setEnabled(St, new.enabled)
      S2 == IF speaks THEN forceSpeek(S1, nextReq) ELSE S1
  IN  /\ speechAvailable
      /\ speaks => nextReq <= MaxReq
      /\ nextReq' = IF speaks THEN nextReq + 1 ELSE nextReq
      /\ reqs' = IF speaks
                   THEN Append(reqs, [ReqRecord("force", S2) EXCEPT !.enabled = new.enabled])
                   ELSE reqs
      /\ Become(S2)
      /\ settings' = new
      /\ dialogSettings' = new
      /\ configured' = new
      /\ selectedVoice' = applyVoiceSettings(getVoices, new.voiceIndex)
      /\ enableMark' = IF new.enabled /\ ~isEnabled THEN nextReq ELSE enableMark
      /\ disableMark' = IF ~new.enabled THEN nextReq ELSE disableMark
      /\ UNCHANGED <<speechAvailable, cancelNotifies, disposed, pollVars, textVars,
                     describeVars, stackVars, toolboxVars, menuVars, cleanupVars,
                     voicesLoaded, raised>>

\* SettingsDialog.toggle
ToggleDialog ==
  /\ DialogEvent
  /\ dialogOpen' = ~dialogOpen
  /\ IF dialogOpen
       THEN UNCHANGED <<originalSettings, atOpen, timeouts>>
       ELSE /\ originalSettings' = dialogSettings
            /\ atOpen' = effective(settings, isEnabled)
            /\ timeouts' = timeouts \cup {[kind |-> "opened", left |-> announceDelay,
                                           msg |-> 0]}
  /\ UNCHANGED <<speechAvailable, cancelNotifies, isEnabled, currentUtterance,
                 utteranceParams, timeSpoken, pendingMessage, interruptionTimer, isSpeaking,
                 queue, queueAge, cancelEvents, submitted, nextReq, history, disposed,
                 pollVars, textVars, settingsVars, describeVars, stackVars, toolboxVars,
                 menuVars, cleanupVars, persisted>>

\* the timeout of toggle fires: 'Settings window opened. ...'
OpenAnnouncementFires ==
  \E t \in timeouts :
    /\ t.left = 0
    /\ t.kind = "opened"
    /\ Request("force", forceSpeek([St EXCEPT !.timeouts = @ \ {t}], nextReq))
    /\ UNCHANGED <<pollVars, restVars>>

\* the input event of a slider or the change event of the checkbox
ControlInput(field, value) ==
  /\ dialogOpen
  /\ field # "voiceIndex"
  /\ value # dialogSettings[field]
  /\ DialogUpdates([dialogSettings EXCEPT ![field] = value], TRUE)
  /\ DialogEvent
  /\ UNCHANGED <<dialogOpen, originalSettings, persisted, atOpen>>

\* the change event of the voice dropdown
VoiceChange(value) ==
  /\ dialogOpen
  /\ value # dialogSettings.voiceIndex
  /\ DialogUpdates([dialogSettings EXCEPT !.voiceIndex = value], FALSE)
  /\ DialogEvent
  /\ UNCHANGED <<dialogOpen, originalSettings, persisted, atOpen>>

\* SettingsDialog.resetToDefaults
ResetToDefaults ==
  /\ dialogOpen
  /\ DialogUpdates(getDefaultSettings, TRUE)
  /\ DialogEvent
  /\ UNCHANGED <<dialogOpen, originalSettings, persisted, atOpen>>

\* SettingsDialog.saveAndClose
SaveAndClose ==
  /\ dialogOpen
  /\ persisted' = dialogSettings
  /\ DialogUpdates(dialogSettings, TRUE)
  /\ DialogEvent
  /\ dialogOpen' = FALSE
  /\ UNCHANGED <<originalSettings, atOpen>>

\* SettingsDialog.cancelAndClose: the Cancel button, the close button and
\* the Escape key
CancelAndClose ==
  /\ dialogOpen
  /\ DialogUpdates(originalSettings, TRUE)
  /\ DialogEvent
  /\ dialogOpen' = FALSE
  /\ UNCHANGED <<originalSettings, atOpen, persisted>>

\* SettingsDialog.testCurrentSettings
TestCurrentSettings ==
  /\ dialogOpen
  /\ DialogEvent
  /\ Request("force", forceSpeek(St, nextReq))
  /\ UNCHANGED <<pollVars, textVars, settingsVars, describeVars, stackVars, toolboxVars,
                 menuVars, cleanupVars, dialogOpen, originalSettings, persisted, atOpen>>

\* GlobalShortcuts.setScreenReaderEnabled(enabled), and the enabled option
\* its constructor applies once the dialog is constructed
SetScreenReaderEnabled(enabled) ==
  /\ DialogEvent
  /\ Become(setEnabled(St, enabled))
  /\ enableMark' = IF enabled /\ ~isEnabled THEN nextReq ELSE enableMark
  /\ disableMark' = IF ~enabled THEN nextReq ELSE disableMark
  /\ UNCHANGED <<speechAvailable, cancelNotifies, nextReq, reqs, disposed, pollVars, textVars,
                 settingsVars, describeVars, stackVars, toolboxVars, menuVars, cleanupVars,
                 dialogOpen, originalSettings, persisted, atOpen>>

\* longest chain of normalisations of one text
MaxPasses == 2

\* cleanTextForScreenReader is applied to the text, as announceNode does with a
\* field's text (and again when its result is given back to it)
Normalize ==
  /\ passes < MaxPasses
  /\ fieldValue' = cleanTextForScreenReader(fieldValue)
  /\ passes' = passes + 1
  /\ UNCHANGED <<speechAvailable, cancelNotifies, isEnabled, currentUtterance, utteranceParams, timeSpoken,
                 pendingMessage, interruptionTimer, isSpeaking, timeouts, queue, queueAge,
                 cancelEvents, submitted, nextReq, history, disposed, pollVars, rawText, settingsVars,
                 describeVars, uiVars>>

Constructed ==
  /\ isEnabled = TRUE
  /\ currentUtterance = 0
  /\ timeSpoken = MaxAge
  /\ pendingMessage = 0
  /\ interruptionTimer = FALSE
  /\ isSpeaking = FALSE
  /\ timeouts = {}
  /\ queue = <<>>
  /\ queueAge = <<>>
  /\ cancelEvents = {}
  /\ submitted = <<>>
  /\ nextReq = 1
  /\ reqs = <<>>
  /\ enableMark = 0
  /\ disableMark = 0
  /\ disposed = FALSE
  /\ cursorInterval = TRUE
  /\ flyoutInterval = TRUE
  /\ curNode = [type |-> "workspace", id |-> <<>>, conn |-> "", name |-> <<>>, loc |-> 0]
  /\ flyoutBlock = ""
  /\ lastWorkspaceNodeId = <<>>
  /\ lastAnnouncedBlockId = ""
  /\ hasLeftWorkspace = FALSE
  /\ workspaceHasFocus = TRUE
  /\ observedNode = NoNode
  /\ focusReturned = FALSE
  /\ focusLost = FALSE
  /\ isDeletingAll = FALSE
  /\ deleteAllTimers = {}
  /\ deleteSuppressed = FALSE

\* an empty workspace and a cursor that is on no block
NoStacks ==
  /\ topBlocks = <<>>
  /\ engineOrder = <<>>
  /\ cursorBlock = 0
  /\ stackMessage = [k |-> 0, n |-> 0]
  /\ visited = <<>>

\* a page whose toolbox is not used
NoToolbox ==
  /\ toolboxItems = <<>>
  /\ lastToolboxLetter = ""
  /\ sinceToolboxLetter = letterWindow
  /\ currentToolboxLetterIndex = 0
  /\ selectedItem = -1
  /\ selectEvents = 0
  /\ toolboxMessage = <<>>
  /\ lastKey = ""
  /\ sinceKey = letterWindow

\* the page as setupComprehensiveMenuListeners finds it: no dropdown is shown
NoMenu ==
  /\ dropdownVisible = FALSE
  /\ menuItemsShown = 0
  /\ isMenuOpen = FALSE
  /\ hasAnnouncedMenuOpen = FALSE
  /\ monitorInterval = -1
  /\ menuTimers = {}
  /\ openedFor = 0
  /\ announcedOpening = 0
  /\ openedAtRest = FALSE
  /\ menuTicks = 0

\* AutoCleanup after its construction, on a workspace that is not read-only
NoCleanup ==
  /\ cleanupTimeout = 0
  /\ cleanupTimers = {}
  /\ nextTimerId = 1
  /\ readOnly = FALSE
  /\ topBlockCount = 0
  /\ cleanUps = 0
  /\ sinceBlockEvent = CLEANUP_DELAY + cleanupTick
  /\ burstOpen = FALSE
  /\ burstEvents = 0
  /\ cleanupDisposed = FALSE

\* the settings dialog after its construction, with nothing saved
NoDialog ==
  /\ dialogOpen = FALSE
  /\ originalSettings = getDefaultSettings
  /\ persisted = <<>>
  /\ atOpen = <<>>
  /\ dialogEvents = 0

\* the objects beside the reader are not used
NoAux == NoCleanup /\ NoDialog

\* the keyboard navigation has nothing to navigate
UiIdle == NoStacks /\ NoToolbox /\ NoMenu /\ NoAux

\* no block has been given to the describer
NoBlockGiven ==
  /\ block = <<>>
  /\ variableTable = <<>>
  /\ description = NotCalled

\* no text has been given to the normaliser
NoText ==
  /\ rawText = <<>>
  /\ fieldValue = <<>>
  /\ passes = 0

\* the settings and the voice after the constructor, for settings s that
\* loadSettings() returned; the voices are loaded later
Loaded(s) ==
  /\ settings = s
  /\ configured = s
  /\ dialogSettings = s
  /\ voicesLoaded = FALSE
  /\ selectedVoice = 0
  /\ utteranceParams = [rate |-> 0, pitch |-> 0, volume |-> 0, voice |-> 0]
  /\ raised = FALSE

Init ==
  /\ speechAvailable \in BOOLEAN
  /\ cancelNotifies = TRUE
  /\ Constructed
  /\ UiIdle
  /\ NoText
  /\ Loaded(getDefaultSettings)
  /\ NoBlockGiven

InitSilent ==
  /\ speechAvailable = TRUE
  /\ cancelNotifies = FALSE
  /\ Constructed
  /\ UiIdle
  /\ NoText
  /\ Loaded(getDefaultSettings)
  /\ NoBlockGiven

\* a reader with the default settings and a settings dialog
InitSettings ==
  /\ speechAvailable = TRUE
  /\ cancelNotifies = FALSE
  /\ Constructed
  /\ UiIdle
  /\ NoText
  /\ Loaded(getDefaultSettings)
  /\ NoBlockGiven

\* a reader that is given a text to normalise
InitText ==
  /\ speechAvailable = TRUE
  /\ cancelNotifies = TRUE
  /\ Constructed
  /\ UiIdle
  /\ rawText \in Texts
  /\ fieldValue = rawText
  /\ passes = 0
  /\ Loaded(getDefaultSettings)
  /\ NoBlockGiven

\* a reader whose window has no speechSynthesis when its methods are called
InitAbsent ==
  /\ speechAvailable = FALSE
  /\ cancelNotifies = FALSE
  /\ Constructed
  /\ UiIdle
  /\ NoText
  /\ Loaded(getDefaultSettings)
  /\ NoBlockGiven

\* a reader that is given a block of a workspace to describe
InitDescribe ==
  /\ speechAvailable = TRUE
  /\ cancelNotifies = TRUE
  /\ Constructed
  /\ UiIdle
  /\ NoText
  /\ Loaded(getDefaultSettings)
  /\ block \in {<<b>> : b \in Blocks}
  /\ variableTable \in {Variables, SubSeq(Variables, 2, Len(Variables))}
  /\ description = NotCalled

\* a workspace with up to MaxStacks stacks whose roots do not move, and a
\* cursor on none of them, on a root or on a block below the first root
InitStacks ==
  /\ speechAvailable = TRUE
  /\ cancelNotifies = FALSE
  /\ Constructed
  /\ NoText
  /\ Loaded(getDefaultSettings)
  /\ NoBlockGiven
  /\ \E n \in 0..MaxStacks :
       /\ topBlocks \in {[i \in 1..n |-> [id |-> i, x |-> pos[i][1], y |-> pos[i][2]]] :
                           pos \in [1..n -> StackXs \X StackYs]}
       /\ cursorBlock \in 0..n \cup {b \in {1 + MaxStacks} : n >= 1}
  /\ engineOrder \in sortOutcomes(topBlocks)
  /\ stackMessage = [k |-> 0, n |-> 0]
  /\ visited = IF cursorBlock = 0 THEN <<>> ELSE <<findRootBlock(cursorBlock)>>
  /\ NoToolbox
  /\ NoMenu
  /\ NoAux

\* a page whose toolbox has the focus
InitToolbox ==
  /\ speechAvailable = TRUE
  /\ cancelNotifies = FALSE
  /\ Constructed
  /\ NoText
  /\ Loaded(getDefaultSettings)
  /\ NoBlockGiven
  /\ NoStacks
  /\ NoMenu
  /\ NoAux
  /\ toolboxItems \in Toolboxes
  /\ lastToolboxLetter = ""
  /\ sinceToolboxLetter = letterWindow
  /\ currentToolboxLetterIndex = 0
  /\ selectedItem = -1
  /\ selectEvents = 0
  /\ toolboxMessage = <<>>
  /\ lastKey = ""
  /\ sinceKey = letterWindow

\* the scheduler, its timers and the device
Next ==
  \/ \E p \in Priority : Speak(p)
  \/ ForceSpeek
  \/ \E e \in BOOLEAN : SetEnabled(e)
  \/ TimeoutFires
  \/ UtteranceEnds
  \/ UtteranceFails
  \/ CancelledUtteranceEvent
  \/ Tick
  \/ Dispose

Spec == Init /\ [][Next]_vars

\* the two polls, the user's moves and dispose()
NextPoll ==
  \/ CursorPollTick
  \/ FlyoutPollTick
  \/ MoveCursor
  \/ MoveFlyoutCursor
  \/ TabKey
  \/ FlyoutFocus
  \/ PointerFocus
  \/ Dispose

SpecPoll == Init /\ [][NextPoll]_vars

\* the D key, the delete events of the workspace and the timers
NextKeys ==
  \/ \E plain \in BOOLEAN : DeleteAllKey(plain)
  \/ BlockDeleteEvent
  \/ DeletingAllExpires
  \/ TabKey
  \/ TimeoutFires
  \/ UtteranceEnds
  \/ Tick

SpecKeys == Init /\ [][NextKeys]_vars

\* the normaliser applied to a text, and to its own result
NextText == Normalize

SpecText == InitText /\ [][NextText]_vars

\* the settings dialog at work while the reader announces
NextSettings ==
  \/ EditDialog
  \/ UpdateSettings
  \/ VoicesChanged
  \/ TestSpeechFires
  \/ Speak("normal")
  \/ TimeoutFires
  \/ UtteranceEnds
  \/ Tick

SpecSettings == InitSettings /\ [][NextSettings]_vars

\* letters pressed in the toolbox, with time passing between them
NextToolbox ==
  \/ \E letter \in ToolboxLetters : PressLetter(letter)
  \/ LetterClockTick
  \/ ToolboxItemSelect

SpecToolbox == InitToolbox /\ [][NextToolbox]_vars

\* a page whose dropdowns are not yet used
InitMenu ==
  /\ speechAvailable = TRUE
  /\ cancelNotifies = FALSE
  /\ Constructed
  /\ NoText
  /\ Loaded(getDefaultSettings)
  /\ NoBlockGiven
  /\ UiIdle

\* dropdowns shown and hidden, the menu observer's timers and time
NextMenu ==
  \/ \E items \in 0..MaxItems : ShowDropdown(items)
  \/ HideDropdown
  \/ OpenTimeoutFires
  \/ ClearTimeoutFires
  \/ MonitorFires
  \/ MenuTimePasses
  \/ MenuTimeLeaps

SpecMenu == InitMenu /\ [][NextMenu]_vars

\* AutoCleanup on a workspace with some stacks, read-only or not
InitCleanup ==
  /\ speechAvailable = TRUE
  /\ cancelNotifies = FALSE
  /\ Constructed
  /\ NoText
  /\ Loaded(getDefaultSettings)
  /\ NoBlockGiven
  /\ NoStacks /\ NoToolbox /\ NoMenu /\ NoDialog
  /\ cleanupTimeout = 0
  /\ cleanupTimers = {}
  /\ nextTimerId = 1
  /\ readOnly \in BOOLEAN
  /\ topBlockCount \in 0..MaxTopBlocks
  /\ cleanUps = 0
  /\ sinceBlockEvent = CLEANUP_DELAY + cleanupTick
  /\ burstOpen = FALSE
  /\ burstEvents = 0
  /\ cleanupDisposed = FALSE

\* change events, the cleanup timeout, dispose() and time
NextCleanup ==
  \/ \E type \in BlockEventTypes, count \in 0..MaxTopBlocks : BlockEvent(type, count)
  \/ CleanupTimeoutFires
  \/ AutoCleanupDispose
  \/ CleanupTimePasses

SpecCleanup == InitCleanup /\ [][NextCleanup]_vars

\* the reader and the dialog as GlobalShortcuts constructs them, with or
\* without saved settings: both load the saved settings, and the dialog
\* takes enabled from the reader
InitDialog ==
  /\ speechAvailable = TRUE
  /\ cancelNotifies = FALSE
  /\ Constructed
  /\ NoText
  /\ NoBlockGiven
  /\ NoStacks /\ NoToolbox /\ NoMenu /\ NoCleanup
  /\ persisted \in SavedItems
  /\ settings = loadSettings(persisted)
  /\ configured = settings
  /\ dialogSettings = [loadSettings(persisted) EXCEPT !.enabled = isEnabled]
  /\ originalSettings = dialogSettings
  /\ voicesLoaded = TRUE
  /\ selectedVoice = applyVoiceSettings(getVoices, settings.voiceIndex)
  /\ utteranceParams = [rate |-> 0, pitch |-> 0, volume |-> 0, voice |-> 0]
  /\ raised = FALSE
  /\ dialogOpen = FALSE
  /\ atOpen = <<>>
  /\ dialogEvents = 0

\* the dialog's controls and buttons, setScreenReaderEnabled of
\* GlobalShortcuts, timeouts, the device and time
NextDialog ==
  \/ ToggleDialog
  \/ OpenAnnouncementFires
  \/ \E field \in DOMAIN ControlValues : \E value \in ControlValues[field] :
       ControlInput(field, value)
  \/ \E value \in ControlValues.voiceIndex : VoiceChange(value)
  \/ ResetToDefaults
  \/ SaveAndClose
  \/ CancelAndClose
  \/ TestCurrentSettings
  \/ \E enabled \in BOOLEAN : SetScreenReaderEnabled(enabled)
  \/ TimeoutFires
  \/ UtteranceEnds
  \/ Tick

SpecDialog == InitDialog /\ [][NextDialog]_vars

\* the N key pressed again and again
NextStacks == PressN

SpecStacks == InitStacks /\ [][NextStacks]_vars

\* the describer applied to a block
NextDescribe == DescribeBlock

SpecDescribe == InitDescribe /\ [][NextDescribe]_vars

\* the public methods of the scheduler, called in any order
NextAbsent ==
  \/ Speak("high")
  \/ ForceSpeek
  \/ \E e \in BOOLEAN : SetEnabled(e)
  \/ EditDialog
  \/ UpdateSettings
  \/ ResetSpeechSynthesis
  \/ Dispose

SpecAbsent == InitAbsent /\ [][NextAbsent]_vars

\* the scheduler in use, on a device that is silent about the utterances it cancels
NextSilent ==
  \/ \E p \in Priority : Speak(p)
  \/ ForceSpeek
  \/ \E e \in BOOLEAN : SetEnabled(e)
  \/ TimeoutFires
  \/ UtteranceEnds
  \/ UtteranceFails
  \/ Tick

SpecSilent == InitSilent /\ [][NextSilent]_vars

\* ------------------------------------------------------------ claims
\* the step is a request of this kind, made while the engine was enabled
Called(kind) ==
  /\ nextReq' = nextReq + 1
  /\ reqs'[nextReq].kind = kind
  /\ isEnabled
  /\ speechAvailable

\* the step hands a text to the device
Submits == Len(submitted') > Len(submitted)
Submission == submitted'[Len(submitted')]

Spoken == Range(submitted)
Position(m) == CHOOSE i \in 1..Len(submitted) : submitted[i] = m
Times(m) == Cardinality({i \in 1..Len(submitted) : submitted[i] = m})
Largest(set) == CHOOSE x \in set : \A y \in set : y <= x

\* C1: at most one utterance is speaking or queued on the output device.
SingleSession == Len(queue) <= 1

\* C9: texts reach the device in the order in which they were requested.
NeverReordered ==
  \A i, j \in 1..Len(submitted) : i < j => submitted[i] < submitted[j]

\* C2: whatever the scheduler held when forceSpeek(Z) was called, every text
\* handed to the device after the call is Z or a text requested after the call:
\* no text requested before the call is spoken after it.
ForceSpeekWins ==
  \A z \in 1..Len(reqs) :
    (reqs[z].kind = "force" /\ reqs[z].enabled /\ speechAvailable) =>
      \A i \in (reqs[z].mark + 1)..Len(submitted) : submitted[i] >= z

\* C3: a text requested while the engine was disabled is never handed to the
\* device, and once the engine has been re-enabled only texts requested after
\* the re-enabling are handed to it.
DisabledEngineIsSilent ==
  [][Submits => /\ reqs'[Submission].enabled
                /\ isEnabled' => Submission >= enableMark']_vars

\* C4: setEnabled(false) with an utterance in flight leaves no current
\* utterance, no pending text, an empty device and no live timeout, and no text
\* requested before it is handed to the device after it.
DisableLeavesIdle ==
  [][/\ (queue # <<>> /\ isEnabled /\ ~isEnabled') =>
          /\ currentUtterance' = 0
          /\ pendingMessage' = 0
          /\ queue' = <<>>
          /\ timeouts' = {}
     /\ Submits => Submission >= disableMark']_vars

\* the normal-priority requests that were deferred while a was the current utterance
Burst(a) ==
  {r \in 1..Len(reqs) : reqs[r].kind = "normal" /\ reqs[r].behind = a}

\* the scheduler holds text m with a timeout that will speak it
Held(m) ==
  \/ pendingMessage = m /\ \E t \in timeouts : t.kind = "interrupt" /\ t.msg = m
  \/ \E t \in timeouts : t.kind = "settle" /\ t.msg = m

\* since m was requested there has been a later request, a disable or a dispose
Superseded(m) ==
  \/ \E r \in (m + 1)..Len(reqs) : reqs[r].enabled
  \/ disableMark > m
  \/ disposed

\* C5: of the normal-priority requests deferred while utterance a had played less
\* than minSpeakTime, the earlier ones are never spoken, and the last one is
\* spoken after a, at most once, and stays scheduled until it is spoken unless a
\* later request or a disable supersedes it.
PendingCollapse ==
  \A a \in Msgs :
    Burst(a) # {} =>
      LET last == Largest(Burst(a))
      IN  /\ \A r \in Burst(a) \ {last} : r \notin Spoken
          /\ Times(last) <= 1
          /\ last \in Spoken => a \in Spoken /\ Position(a) < Position(last)
          /\ last \in Spoken \/ Held(last) \/ Superseded(last)

PendingCollapseWitness ==
  \E a \in Msgs :
    /\ Cardinality(Burst(a)) >= 2
    /\ Largest(Burst(a)) \in Spoken
    /\ ~Superseded(Largest(Burst(a)))

\* a high-priority request arrives while a is the current utterance and on the device
HighArrives(a) ==
  /\ Called("high")
  /\ a # 0
  /\ currentUtterance = a
  /\ a \in Range(queue)

\* C6: a high-priority request B that arrives when the current utterance A has
\* played more than 200 ms cancels A at once and B is handed to the device when
\* the 50 ms settle delay has passed; one that arrives when A has played less
\* than 200 ms leaves A playing and is held as pending, with a timer that is
\* not due before A has played 200 ms.
HighPreemptsAfterThreshold ==
  [][/\ \A a \in Msgs :
          (HighArrives(a) /\ timeSpoken > highPriorityThreshold) =>
             /\ queue' = <<>>
             /\ currentUtterance' = 0
             /\ ~Submits
             /\ [kind |-> "settle", left |-> settleDelay, msg |-> nextReq] \in timeouts'
     /\ \A a \in Msgs :
          (HighArrives(a) /\ timeSpoken < highPriorityThreshold) =>
             /\ queue' = queue
             /\ currentUtterance' = a
             /\ ~Submits
             /\ pendingMessage' = nextReq
             /\ \E t \in timeouts' : /\ t.kind = "interrupt"
                                     /\ t.msg = nextReq
                                     /\ timeSpoken + t.left >= highPriorityThreshold
     /\ \A t \in timeouts :
          t.kind = "settle" =>
             \/ t \in timeouts'
             \/ t.left > 0 /\ [t EXCEPT !.left = @ - settleDelay] \in timeouts'
             \/ t.left = 0 /\ Submits /\ Submission = t.msg]_vars

HighPreemptsWitness ==
  \E b \in 1..Len(reqs) :
    /\ reqs[b].kind = "high"
    /\ reqs[b].cut # 0
    /\ b \in Spoken
    /\ \E c \in 1..Len(reqs) : reqs[c].kind = "high" /\ reqs[c].behind # 0

\* the step empties a device that held an utterance, by a call or a timeout
CutBy(A) == queue # <<>> /\ queue' = <<>> /\ A

\* every utterance on the device was submitted at least age ms ago
AllPlayed(age) == \A i \in 1..Len(queueAge) : queueAge[i] >= age

\* C7 as stated: an utterance is cut off only after it has played minSpeakTime,
\* or by a high-priority request that arrives after it has played 200 ms.
MinSpeakTimeProtected ==
  [][CutBy((\E p \in Priority : Speak(p)) \/ ForceSpeek \/ SetEnabled(FALSE) \/ TimeoutFires) =>
        \/ AllPlayed(minSpeakTime)
        \/ Speak("high") /\ AllPlayed(highPriorityThreshold + settleDelay)]_vars

\* C7 (amended): speak(), speakHighPriority() and the interruption timer cancel
\* an utterance only when minSpeakTime has passed since it was handed to the
\* device, or for a high-priority request that arrives more than 200 ms after
\* that; forceSpeek(), setEnabled(false) and dispose() cancel at any time.
MinSpeakTimeProtectedBySpeak ==
  [][CutBy((\E p \in Priority : Speak(p)) \/ TimeoutFires) =>
        \/ AllPlayed(minSpeakTime)
        \/ Speak("high") /\ AllPlayed(highPriorityThreshold + settleDelay)]_vars

MinSpeakTimeWitness ==
  \E r \in 1..Len(reqs) : reqs[r].kind = "normal" /\ reqs[r].cut # 0

\* C8: right after an accepted speak(text, 'high') the pending slot is empty or
\* holds this call's own text.
HighClearsPending ==
  [][Called("high") => pendingMessage' \in {0, nextReq}]_vars

HighClearsPendingWitness ==
  \E r \in 1..Len(reqs) :
    /\ reqs[r].kind = "high"
    /\ reqs[r].enabled
    /\ speechAvailable
    /\ reqs[r].replaced # 0

\* C10: after dispose() no poll tick makes an announcement, and a second
\* dispose() changes nothing of the polls.
PollsStopOnDispose ==
  [][disposed =>
        /\ ~(CursorPollTick /\ nextReq' # nextReq)
        /\ ~(FlyoutPollTick /\ nextReq' # nextReq)
        /\ Dispose => UNCHANGED pollVars]_vars

\* the poll tick sees the cursor at another place than at its last tick, and
\* the two places are not both spots of the workspace root
ObservesChange ==
  /\ CursorPollTick
  /\ observedNode # NoNode
  /\ curNode # observedNode
  /\ ~(curNode.type = "workspace" /\ observedNode.type = "workspace")

\* C11: a poll tick that sees the workspace cursor at a different location than
\* the tick before makes exactly one high-priority announcement.
OneAnnouncementPerChange ==
  [][ObservesChange => /\ nextReq' = nextReq + 1
                       /\ reqs'[nextReq].kind = "high"]_vars

\* C12: reading the key of an unchanged location gives the key read before,
\* every workspace-root location has the key 'workspace', and two locations of
\* the same kind on blocks with different ids have different keys.
NodeIdentityStable ==
  [][CursorPollTick =>
        /\ curNode = observedNode => getNodeIdentifier(curNode) = lastWorkspaceNodeId
        /\ curNode.type = "workspace" =>
              lastWorkspaceNodeId' = <<"w", "o", "r", "k", "s", "p", "a", "c", "e">>
        /\ (observedNode.type = curNode.type /\ observedNode.id # curNode.id) =>
              getNodeIdentifier(curNode) # getNodeIdentifier(observedNode)]_vars

\* C13: two different locations that are not both workspace-root locations
\* never have the same key.
DistinctLocationsDistinctKeys ==
  \A n \in Nodes :
    (/\ observedNode # NoNode
     /\ n # observedNode
     /\ ~(n.type = "workspace" /\ observedNode.type = "workspace")) =>
        getNodeIdentifier(n) # lastWorkspaceNodeId

\* C14: a D key press on the focused workspace makes exactly one forceSpeek
\* announcement and sets the bulk-delete flag, and a BLOCK_DELETE event that
\* arrives while the flag is set makes no announcement.
BulkDeleteAnnouncedOnce ==
  [][/\ (DeleteAllKey(TRUE) /\ workspaceHasFocus) =>
          /\ nextReq' = nextReq + 1
          /\ reqs'[nextReq].kind = "force"
          /\ isDeletingAll'
     /\ (BlockDeleteEvent /\ isDeletingAll) => nextReq' = nextReq
     /\ \A r \in 1..Len(reqs) : reqs[r].kind = "force" => Times(r) <= 1]_vars

BulkDeleteWitness ==
  /\ isDeletingAll
  /\ deleteSuppressed
  /\ \E r \in 1..Len(reqs) : reqs[r].kind = "force" /\ r \in Spoken

\* C15: normalising a normalised text changes nothing.
NormalizeIdempotent ==
  [][(Normalize /\ passes >= 1) => fieldValue' = fieldValue]_vars

\* the keys of symbolMap of more than one character
MultiCharOperators == {e \in symbolMap : Len(e[1]) > 1}

\* C16: a text that is exactly a multi-character operator becomes that
\* operator's phrase, 'sqrt(2)' becomes 'square root of 2' and '#' becomes
\* 'number'.
LongestOperatorFirst ==
  [][(Normalize /\ passes = 0) =>
        /\ \A e \in MultiCharOperators : fieldValue = e[1] => fieldValue' = e[2]
        /\ fieldValue = <<"s", "q", "r", "t", "(", "2", ")">> =>
              fieldValue' = <<"s", "q", "u", "a", "r", "e", " ", "r", "o", "o", "t", " ", "o", "f", " ", "2">>
        /\ fieldValue = <<"#">> => fieldValue' = <<"n", "u", "m", "b", "e", "r">>]_vars

LongestOperatorWitness ==
  /\ passes = 1
  /\ rawText = <<"<", "=">>
  /\ fieldValue = <<"l", "e", "s", "s", " ", "t", "h", "a", "n", " ", "o", "r", " ", "e", "q", "u",
                "a", "l">>

\* the step is a call of updateSettings
UpdatesSettings == configured' = dialogSettings /\ UpdateSettings

\* C17: an utterance is created with the rate, pitch and volume last passed to
\* updateSettings and, when the voices are loaded and have it, with the voice
\* of that index; updateSettings leaves the parameters of the utterance
\* created before it as they are; and a change of the object that was passed
\* changes nothing of the reader's settings.
SettingsApplyToNextUtterance ==
  [][/\ Submits =>
          /\ utteranceParams'.rate = configured.rate
          /\ utteranceParams'.pitch = configured.pitch
          /\ utteranceParams'.volume = configured.volume
          /\ (voicesLoaded /\ configured.voiceIndex < NumVoices) =>
                utteranceParams'.voice = configured.voiceIndex + 1
     /\ UpdatesSettings => utteranceParams' = utteranceParams
     /\ EditDialog => settings' = settings /\ selectedVoice' = selectedVoice]_vars

SettingsWitness ==
  /\ submitted # <<>>
  /\ reqs[submitted[Len(submitted)]].behind # 0
  /\ utteranceParams = [rate |-> 5, pitch |-> 20, volume |-> 3, voice |-> 2]
  /\ configured # dialogSettings


\* C18: while the window has no speechSynthesis, no public method of the
\* scheduler (speakHighPriority, forceSpeek / testSpeechSettings, setEnabled,
\* updateSettings, resetSpeechSynthesis, dispose) raises an exception to its
\* caller, hands anything to the device or starts a timer.
SafeWithoutSpeech ==
  ~speechAvailable =>
    /\ ~raised
    /\ submitted = <<>>
    /\ queue = <<>>
    /\ timeouts = {}


\* the nouns the describer puts in the place of a block that is not there
PlaceholderNouns ==
  {"condition", "statement", "statements", "value", "value A", "value B", "NUM"}

EmptyInputs(b) == {name \in DOMAIN b.inputs : b.inputs[name] = <<>>}

Placeholders(text) == {i \in 1..Len(text) : text[i] \in PlaceholderNouns}

\* C19: describing a block never throws and returns a non-empty text, in
\* which there is a placeholder noun for each input of the block that has no
\* block plugged in.
DescriptionNeverFails ==
  description.done =>
    /\ ~description.thrown
    /\ description.text # <<>>
    /\ Cardinality(Placeholders(description.text)) >= Cardinality(EmptyInputs(block[1]))

RECURSIVE References(_)
\* the ids of the variables that a block, and the blocks inside it, refer to
References(b) ==
  (IF "VAR" \in DOMAIN b.fields THEN {b.fields["VAR"]} ELSE {})
    \cup UNION {References(b.inputs[name][1]) :
                  name \in {n \in DOMAIN b.inputs : b.inputs[n] # <<>>}}

TableIds == {variableTable[i].id : i \in 1..Len(variableTable)}

NameOf(id) == variableTable[CHOOSE i \in 1..Len(variableTable) : variableTable[i].id = id].name

\* C20: the description of a block holds the name of every variable of the
\* table that the block or a block inside it, at any depth, refers to; the
\* word 'variable' is in it only when one of them refers to a variable that
\* is not in the table.
VariablesAreNamed ==
  (description.done /\ ~description.thrown) =>
    /\ \A id \in References(block[1]) \cap TableIds : NameOf(id) \in Range(description.text)
    /\ "variable" \in Range(description.text) => References(block[1]) \ TableIds # {}


\* a step that is a press of N
PressesN == nextReq' = nextReq + 1

StackIds == {topBlocks[i].id : i \in 1..Len(topBlocks)}

\* C21: with two or more stacks that do not move, a press of N puts the
\* cursor on the stack that follows the current one in the sorted order, the
\* first following the last, and announces it as 'Stack k of n' with k in
\* 1..n; any n stacks visited in a row are all the stacks, and the stack
\* visited n presses later is the same one; with fewer than two stacks the
\* cursor stays where it is.
NextStackCycles ==
  /\ [](LET n == Len(topBlocks)
        IN  n >= 2 =>
              \A i \in 1..Len(visited) :
                /\ i + n <= Len(visited) => visited[i + n] = visited[i]
                /\ i + n - 1 <= Len(visited) =>
                     {visited[j] : j \in i..(i + n - 1)} = StackIds)
  /\ [][PressesN =>
          LET n == Len(topBlocks)
          IN  IF n >= 2
                THEN /\ stackMessage'.n = n
                     /\ stackMessage'.k \in 1..n
                     /\ cursorBlock' = engineOrder[stackMessage'.k].id
                     /\ cursorBlock # 0 =>
                          stackMessage'.k =
                            ((findIndex(engineOrder, findRootBlock(cursorBlock)) + 1) % n) + 1
                ELSE cursorBlock' = cursorBlock /\ visited' = visited]_vars

\* three stacks that the comparator does not order consistently, and three
\* presses that have brought the cursor back to the stack it started on
NextStackWitness ==
  /\ Len(topBlocks) = MaxStacks
  /\ ~consistentComparator(topBlocks)
  /\ Len(visited) = MaxStacks + 1
  /\ visited[MaxStacks + 1] = visited[1]
  /\ stackMessage.k = 1


\* a step that is seen to be a press of a letter
PressesLetter == lastKey' # lastKey \/ sinceKey' < sinceKey

\* a step in which a press of a letter selects a category
SelectsByLetter == selectEvents' = selectEvents + 1

\* the match that follows the selected one, the first following the last
NextMatch(matching) ==
  LET i == CHOOSE i \in 1..Len(matching) : matching[i] = selectedItem
  IN  matching[(i % Len(matching)) + 1]

\* C22, as stated: the letter of the press before, whether or not it matched
\* a category, and the time since that press decide between the next match
\* and the first one.
FirstLetterCyclesSincePress ==
  [][SelectsByLetter =>
       LET matching == matchingItems(toolboxItems, lastKey')
       IN  /\ currentToolboxLetterIndex' \in 0..(Len(matching) - 1)
           /\ selectedItem' = matching[currentToolboxLetterIndex' + 1]
           /\ selectedItem' =
                IF lastKey' = lastKey /\ sinceKey < letterWindow
                  THEN NextMatch(matching)
                  ELSE matching[1]]_vars

\* what holds of C22: a press of a letter that has a matching category selects
\* one of its matches: the match after the selected one, the first after the
\* last, when the letter is that of the last press that selected a category
\* and less than 2 seconds have passed since that press, and the first match
\* otherwise; the index is within the matches; a press of a letter without a
\* match changes neither the selection nor the cycle.
FirstLetterCycles ==
  [][/\ SelectsByLetter =>
          LET matching == matchingItems(toolboxItems, lastKey')
          IN  /\ currentToolboxLetterIndex' \in 0..(Len(matching) - 1)
              /\ selectedItem' = matching[currentToolboxLetterIndex' + 1]
              /\ lastToolboxLetter' = lastKey'
              /\ selectedItem' =
                   IF lastKey' = lastToolboxLetter /\ sinceToolboxLetter < letterWindow
                     THEN NextMatch(matching)
                     ELSE matching[1]
     /\ (PressesLetter /\ matchingItems(toolboxItems, lastKey') # <<>>) => SelectsByLetter
     /\ (PressesLetter /\ matchingItems(toolboxItems, lastKey') = <<>>) =>
          UNCHANGED <<selectedItem, currentToolboxLetterIndex, lastToolboxLetter>>]_vars

\* C23: an opening of the dropdown with at least one item is announced once:
\* never twice, and once the dropdown has been visible with its items for
\* longer than the delay of the announcement, 'Menu opened with N items' has
\* been announced for it. It is stated of the openings that find the observer
\* at rest only, no timeout of an earlier opening armed and no monitor running.
MenuOpeningAnnouncedOnce ==
  /\ announcedOpening <= 1
  /\ dropdownVisible /\ menuItemsShown > 0 /\ openedFor > openDelay /\ openedAtRest
       => announcedOpening = 1

\* the pending slot holds the text of a high-priority request
HighPending == pendingMessage # 0 /\ reqs[pendingMessage].kind = "high"

\* C24: a normal-priority speak() leaves a high-priority text that is in the
\* pending slot where it is.
HighPendingKept ==
  [][(Called("normal") /\ HighPending) => pendingMessage' = pendingMessage]_vars

\* the utterance on the device completes while a text is pending
EndsWithPending == UtteranceEnds /\ pendingMessage # 0

\* C25: when the utterance being spoken ends while the pending slot holds a
\* text, the same step hands that text to the device, empties the slot and
\* leaves no interruption timer alive; no text is handed to the device twice.
PendingSpokenAtEnd ==
  /\ [][EndsWithPending =>
          /\ Submits
          /\ Submission = pendingMessage
          /\ pendingMessage' = 0
          /\ ~interruptionTimer'
          /\ \A t \in timeouts' : t.kind # "interrupt"]_vars
  /\ [](\A m \in Msgs : Times(m) <= 1)

\* the last request was deferred behind an utterance, its timer has been
\* cleared without another request or a dispose, and its text is being spoken
PendingSpokenWitness ==
  \E m \in 1..Len(reqs) :
    /\ m = Len(reqs)
    /\ reqs[m].behind # 0
    /\ currentUtterance = m
    /\ Times(m) = 1
    /\ ~interruptionTimer
    /\ isEnabled
    /\ ~disposed

\* the device fails on the utterance that is the scheduler's current one
FailsCurrent == UtteranceFails /\ currentUtterance # 0 /\ queue[1] = currentUtterance

\* C26: when the device reports an error for the current utterance, the
\* handler leaves no current utterance, isSpeaking false and the device idle,
\* hands nothing to the device and raises nothing; and a text that has been
\* handed to the device once is never handed to it again.
ErrorClearsSession ==
  /\ [][FailsCurrent =>
          /\ currentUtterance' = 0
          /\ ~isSpeaking'
          /\ queue' = <<>>
          /\ ~Submits
          /\ ~raised']_vars
  /\ [][Submits => Submission \notin Spoken]_vars

\* the first utterance has failed with the second request deferred behind it:
\* nothing is current, the device is idle and the deferred text still waits
ErrorClearsWitness ==
  /\ Len(reqs) = 2
  /\ submitted = <<1>>
  /\ reqs[2].behind = 1
  /\ currentUtterance = 0
  /\ queue = <<>>
  /\ pendingMessage = 2

\* the step is a speak() that defers its text into the pending slot
Defers == (\E p \in Priority : Called(p)) /\ pendingMessage' = nextReq

InterruptTimers == {t \in timeouts : t.kind = "interrupt"}

\* C27: a speak() that defers does so with the current utterance less than
\* minSpeakTime old and arms the interruption timer for its text with
\* minSpeakTime - elapsed + interruptionDelay, more than 300 and at most 800
\* ms, due 800 ms after the recorded start of the current utterance, whatever
\* was pending before; there is never more than one interruption timer.
TimerDueAfterStart ==
  /\ [][Defers =>
          /\ timeSpoken < minSpeakTime
          /\ \E t \in timeouts' :
               /\ t.kind = "interrupt"
               /\ t.msg = nextReq
               /\ t.left = minSpeakTime - timeSpoken + interruptionDelay
               /\ t.left > interruptionDelay
               /\ t.left <= minSpeakTime + interruptionDelay
               /\ timeSpoken' + t.left = minSpeakTime + interruptionDelay]_vars
  /\ [](Cardinality(InterruptTimers) <= 1)

\* a deferred request has replaced an earlier pending text some time after the
\* start of the current utterance, and its timer is the only one
TimerDueWitness ==
  \E r \in 1..Len(reqs) :
    /\ reqs[r].behind # 0
    /\ reqs[r].replaced # 0
    /\ pendingMessage = r
    /\ timeSpoken > 0
    /\ InterruptTimers = {[kind |-> "interrupt", left |-> minSpeakTime + interruptionDelay - timeSpoken, msg |-> r]}

\* C28: a tick of the cursor poll that finds a cursor node announces it if and
\* only if its key differs from lastWorkspaceNodeId or the workspace has the
\* focus with hasLeftWorkspace set; after the tick lastWorkspaceNodeId is the
\* key of the node and the focus clause is false, so that a second tick at the
\* same location with nothing in between announces nothing.
PollAnnouncesOnce ==
  [][CursorPollTick =>
        LET currentNodeId == getNodeIdentifier(curNode)
        IN  /\ (nextReq' = nextReq + 1) <=>
                 (\/ lastWorkspaceNodeId # currentNodeId
                  \/ (workspaceHasFocus /\ hasLeftWorkspace))
            /\ nextReq' \in {nextReq, nextReq + 1}
            /\ lastWorkspaceNodeId' = currentNodeId
            /\ ~(workspaceHasFocus' /\ hasLeftWorkspace')]_vars

\* a location has been announced twice without the cursor having moved: by
\* the tick that first saw it and by the tick that found the flag set
PollAnnouncesWitness ==
  /\ Len(reqs) = 2
  /\ \A r \in 1..2 : reqs[r].kind = "high"
  /\ curNode.type = "workspace"
  /\ observedNode = curNode
  /\ lastWorkspaceNodeId = getNodeIdentifier(curNode)
  /\ workspaceHasFocus
  /\ ~hasLeftWorkspace

\* C29: the first tick of the cursor poll after the workspace has regained the
\* focus announces the cursor's location.
FocusReturnAnnounced ==
  [][(CursorPollTick /\ focusReturned /\ workspaceHasFocus) => nextReq' = nextReq + 1]_vars

\* the text without its invisible directional characters
withoutInvisible(text) == SelectSeq(text, LAMBDA c : c \notin Invisible)

\* the rules that follow the # branch: function names, symbol table, then
\* subscripts and superscripts
laterRules(s) ==
  IF includes(s, "(") /\ includes(s, ")")
    THEN replaceEnd(replaceStartEach(s, functionNames), <<{")"}>>, <<>>)
  ELSE IF symbolMapGet(s) # <<>> THEN symbolMapGet(s)
  ELSE replaceAllEach(s, scripts)

\* the text reaches the # branch and none of its replacements changes it
HashUntouched(text) ==
  LET cleanText == trim(withoutInvisible(text))
  IN  /\ includes(cleanText, "#")
      /\ ~(startsWith(cleanText, <<"s", "q", "r", "t", "(">>) /\ endsWith(cleanText, <<")">>))
      /\ replaceHash(cleanText) = cleanText

\* C30: a text with a '#' that no replacement of the # branch changes is given
\* to the later rules: the result is that of the function-name, symbol-table
\* and subscript/superscript rules on the text without its invisible
\* characters, and it is the result for the text without those characters.
HashFallsThrough ==
  [][(Normalize /\ passes = 0 /\ HashUntouched(fieldValue)) =>
        /\ fieldValue' = laterRules(trim(withoutInvisible(fieldValue)))
        /\ fieldValue' = cleanTextForScreenReader(withoutInvisible(fieldValue))]_vars

\* ---------------------------------------------------------------- C31
\* the callback of a cleanup timeout runs
CleanupRuns == CleanupTimeoutFires

\* a burst of events is answered by one callback, 100 ms after its last event:
\* while a burst is open, the one timeout that is armed is due at that moment,
\* and the callback that runs closes the burst
OneCallbackPerBurst ==
  /\ [](Cardinality(cleanupTimers) <= 1)
  /\ [](burstOpen => \E t \in cleanupTimers :
                        t.id = cleanupTimeout /\ t.left = CLEANUP_DELAY - sinceBlockEvent)
  /\ [](~burstOpen => cleanupTimers = {})
  /\ [][CleanupRuns => burstOpen /\ sinceBlockEvent = CLEANUP_DELAY /\ ~burstOpen']_vars

\* C31 as claimed: AutoCleanup debounces: a burst of BLOCK_CREATE / BLOCK_DELETE
\* events, each less than 100 ms after the one before, is followed by exactly
\* one workspace cleanup, 100 ms after its last event, and at most one cleanup
\* timeout is pending at any time.
CleanupOncePerBurst ==
  /\ OneCallbackPerBurst
  /\ [][CleanupRuns => cleanUps' = cleanUps + 1]_vars

\* C31 as amended: a burst of BLOCK_CREATE / BLOCK_DELETE events, each less
\* than 100 ms after the one before, is followed, unless dispose() is called
\* first, by exactly one run of the cleanup callback, 100 ms after its last
\* event; the callback cleans the workspace up once if the workspace is not
\* read-only and has a stack at that moment, and not at all otherwise; at most
\* one cleanup timeout is pending at any time.
CleanupCallbackOncePerBurst ==
  /\ OneCallbackPerBurst
  /\ [][CleanupRuns => cleanUps' - cleanUps =
                         (IF readOnly \/ topBlockCount = 0 THEN 0 ELSE 1)]_vars
  /\ [][cleanUps' # cleanUps => CleanupRuns]_vars

\* a burst of three events has been answered by the one cleanup of the run
CleanupOnceWitness ==
  /\ burstEvents = 3
  /\ nextTimerId = 4
  /\ ~burstOpen
  /\ ~cleanupDisposed
  /\ sinceBlockEvent = CLEANUP_DELAY
  /\ cleanUps = 1

\* ---------------------------------------------------------------- C32
\* C32: AutoCleanup.dispose() disposes of the auto-cleanup: a cleanup that was
\* pending when dispose() was called never runs, and this object performs no
\* workspace cleanup at any time after dispose().
NoCleanupAfterDispose ==
  /\ [][AutoCleanupDispose => \A t \in cleanupTimers' : t.id # cleanupTimeout]_vars
  /\ [][cleanupDisposed => cleanUps' = cleanUps]_vars

\* ---------------------------------------------------------------- C33
\* C33: settings round-trip on cancel: once the settings dialog is opened, any
\* previewed edits followed by Cancel, Escape or the close button leave the
\* reader going by what it went by when the dialog was opened, and leave the
\* saved settings as they were; only Save writes the saved settings.
CancelRestoresSettings ==
  /\ [][CancelAndClose => /\ effective(settings', isEnabled') = atOpen
                          /\ persisted' = persisted]_vars
  /\ [][persisted' # persisted => SaveAndClose]_vars

\* ---------------------------------------------------------------- C34
\* C34: whenever an interruption timer is armed, the pending slot holds the
\* text that the timer will speak when it fires: no operation empties or
\* changes the pending slot and leaves the timer armed.
ArmedTimerHoldsPending == \A t \in InterruptTimers : pendingMessage = t.msg

\* ---------------------------------------------------------------- C35
\* no timer is armed and the device has nothing to play or to report: the
\* scheduler takes no further step unless a request arrives
AtRest == timeouts = {} /\ queue = <<>> /\ cancelEvents = {}

\* C35: quiescence: once requests stop arriving, the scheduler comes to rest
\* idle, with no current session, no armed timer and an empty pending slot: a
\* text is never left in the pending slot to wait for some future request.
RestsIdle == AtRest => currentUtterance = 0 /\ pendingMessage = 0

\* ---------------------------------------------------------------- C36
\* the utterance the current-session register refers to is on the device
SessionOnDevice == currentUtterance # 0 /\ currentUtterance \in Range(queue)

\* C36: an end or error signal of an utterance that was cancelled, delivered
\* when a newer utterance has been submitted, does not clear or change the
\* current-session register: currentUtterance stays set while the utterance
\* it refers to is speaking or queued on the device.
StaleSignalKeepsSession ==
  [][(CancelledUtteranceEvent /\ SessionOnDevice) => currentUtterance' = currentUtterance]_vars

\* ---------------------------------------------------------------- C37
\* C37: after dispose() the scheduler hands no further utterance to the
\* device, whether by a settle-delay timeout, by the interruption timer, by a
\* device end callback or by a listener that is still registered.
SilentAfterDispose == [][disposed => submitted' = submitted]_vars

\* ---------------------------------------------------------------- C38
\* C38: isDeletingAll is set for the 1000 ms that follow every accepted press
\* of D and is clear at all other times: while the window of the latest press
\* has not expired the flag is set, also when an earlier window has expired
\* in between, and once no window is open the flag is clear.
DeletingAllWindow ==
  /\ (\E left \in deleteAllTimers : left > 0) => isDeletingAll
  /\ deleteAllTimers = {} => ~isDeletingAll

\* ---------------------------------------------------------------- C39
\* a tick of the watcher announces the location it announced last
RepeatsLocation ==
  /\ CursorPollTick
  /\ nextReq' = nextReq + 1
  /\ lastWorkspaceNodeId = getNodeIdentifier(curNode)

\* C39: the watcher announces again a location whose identity has not changed
\* only if the workspace has lost the focus and regained it since that
\* location was announced last: raising hasLeftWorkspace causes no repeat
\* while the focus has stayed in the workspace.
RepeatOnlyAfterFocusReturn ==
  [][RepeatsLocation => focusLost /\ workspaceHasFocus]_vars

\* ---------------------------------------------------------------- C40
\* the dropdown of an announced opening has been hidden and nothing is left
\* that would announce its closing: the menu state says open, the monitor does
\* not run and no timeout is armed that would start it
MenuStuckOpen ==
  /\ ~dropdownVisible
  /\ isMenuOpen
  /\ announcedOpening > 0
  /\ monitorInterval = -1
  /\ \A t \in menuTimers : t.kind # "open"

\* C40: every announced menu opening is followed, once the dropdown is hidden,
\* by 'Menu closed' and the reset of the menu state, however long the menu
\* was open and however many items it had: the menu state never stays at open
\* after the dropdown has been hidden.
MenuClosingFollows == ~MenuStuckOpen

=========================================================================
